---- MODULE Spec2Model ----
(***************************************************************************)
(* Workspace flavour providers, the cloud revalidation pipeline and the    *)
(* local -> cloud transform service of the workspace module.               *)
(*                                                                         *)
(*   transform.ts   WorkspaceTransformService.transformLocalToCloud        *)
(*   workspace.ts   CloudWorkspaceFlavourProvider                          *)
(*   part_007       LocalWorkspaceFlavourProvider                          *)
(*   part_006       WorkspaceFactoryService                                *)
(*   engine.ts      WorkspaceEngine                                        *)
(*   part_001       CloudBlobStorage                                       *)
(*   part_002       getAvailableStorageImplementations                     *)
(*   common.ts      addImages                                              *)
(*   observe-intersection.ts  observeIntersection                          *)
(*   part_003       PerplexityProvider                                     *)
(*                                                                         *)
(* Every await of the code is a suspension point: the code between two     *)
(* awaits is one action.  A CRDT document is the set of update tokens it   *)
(* has merged: applyUpdate is set union, encodeStateAsUpdate the set.      *)
(***************************************************************************)
EXTENDS Integers, Sequences, FiniteSets, TLC

\* ------------------------------------------------------------------ bounds
\* workspaces the remote server holds at the start, ids 1..MaxCloudId
MaxCloudId == 3

\* ------------------------------------------------------------------- data
Accounts == {"A", "B"}
NoAccount == "none"
Identities == Accounts \cup {NoAccount}
CloudIds == 1..MaxCloudId
Null == "null"
Unset == "unset"
CloudFlavour == "cloud"
LocalFlavour == "local"

\* WorkspaceMetadata as the revalidation pipeline builds it
Meta(i, init) == [id |-> i, flavour |-> CloudFlavour, initialized |-> init]

Range(s) == {s[i] : i \in DOMAIN s}

\* all orders in which the server may list a set of entries
Perms(S) ==
  {s \in [1..Cardinality(S) -> S] : \A i, j \in DOMAIN s : i # j => s[i] # s[j]}

IsSortedById(s) == \A i, j \in DOMAIN s : i < j => s[i].id <= s[j].id

\* (mutant) the fetched list is committed in the order the server sent it
Unsorted(s) == s

\* workspaces.sort((a, b) => a.id.localeCompare(b.id)); ids are ordered as integers
SortById(s) == CHOOSE t \in Perms(Range(s)) : IsSortedById(t)

Ids(s) == {s[i].id : i \in DOMAIN s}

VARIABLES
  \* ---- session and remote server
  account,        \* authService.session.account$.value?.id
  remote,         \* server: account -> set of workspace ids it can list
  remoteInit,     \* server: ids whose `initialized` flag is set
  \* ---- CloudWorkspaceFlavourProvider
  lastKey,        \* last identity passed by distinctUntilChanged(comparator)
  reqs,           \* list fetches in flight (promises of the live inner observable)
  workspaces,     \* workspaces$.value
  wsOwner,        \* history: the identity whose list workspaces$ holds
  cache,          \* globalState[cacheKey + accountId]
  isRevalidating, \* isRevalidating$.value
  error,          \* error$.value
  lastEvent,      \* history: what the pipeline did last
  aborted,        \* history: identities whose fetch a switch unsubscribed in flight
  del,            \* the deleteWorkspace(id) call of the cloud provider
  \* ---- transformLocalToCloud(local, accountId, flavour) and what it works on
  tpc,            \* the await the call is suspended at
  src,            \* the `local` argument: [id, flavour]
  dst,            \* the `flavour` argument
  isElectron,     \* BUILD_CONFIG.isElectron
  eng,            \* a WorkspaceEngine, its worker provider and what was called on them
  ctx,            \* execution contexts that share the local id list: the local
                  \* provider's createWorkspace / deleteWorkspace running in each
  localIds,       \* localStorage['affine-local-workspace'], parsed
  notify,         \* messages posted on the local-workspace-changed channel
  localDoc,       \* update log of the source workspace's doc storage
  localBlob,      \* records of the source workspace's blob storage
  newId,          \* id of the workspace being created (0: none yet)
  coll,           \* the new DocCollection: root document and its subdocuments
  todo,           \* what is left of the loop the call is in
  cur,            \* the blob record read by the copy loop
  newDoc,         \* update log of the doc storage constructed for newId
  newBlob,        \* records of the blob storage constructed for newId
  log,            \* history: what the call has done, in order
  hist,           \* history: disposals, returns and the failure of the call
  \* ---- the other services of the module
  obs,            \* per execution context, the subscription of the local
                  \* provider's workspaces$: `last`, the LiveData's value, the
                  \* broadcasts delivered and the number of next() calls
  item,           \* localStorage['affine-local-workspace'] as stored: the raw item
  cloudBlob,      \* the server's blobs of one cloud workspace, per key, and the
                  \* calls made on its CloudBlobStorage
  pool,           \* CloudWorkspaceFlavoursProvider: the pool's entries, the
                  \* providers made, the refs taken and the subscription
  ret,            \* history: the last call of an operation, its argument and
                  \* what it returned or threw
  providerDisposed, \* CloudWorkspaceFlavourProvider.dispose() has run
  io,             \* observe-intersection: elementsMap, the elements the shared
                  \* IntersectionObserver observes, the listeners made
  pp              \* PerplexityProvider: its buffer and the streams it serves

uiVars == <<providerDisposed, io, pp>>
svcVars == <<obs, item, cloudBlob, pool, ret, uiVars>>
tData == <<svcVars, src, dst, isElectron, eng, ctx, localIds, notify, localDoc, localBlob, newId, coll,
           todo, cur, newDoc, newBlob, log>>
tVars == <<tpc, hist, tData>>
pipeVars == <<lastKey, reqs, workspaces, wsOwner, cache, isRevalidating, error, lastEvent,
              aborted>>
envVars == <<account, remote, remoteInit>>
vars == <<envVars, pipeVars, del, tVars>>

\* ------------------------------------------------- revalidation pipeline
\* (mutant) every identity compares equal: no trigger ever switches
SameIdentityAlways(a, b) == TRUE

\* (mutant) no identity compares equal: every trigger switches
SameIdentityNever(a, b) == FALSE

\* comparator of exhaustMapSwitchUntilChanged: (a, b) => a.accountId === b.accountId
SameIdentity(a, b) == a = b

\* distinctUntilChanged(comparator) in front of switchMap: the first trigger and
\* every trigger whose identity differs from the last one passed switch
Switches(acc) == lastKey = Unset \/ ~SameIdentity(lastKey, acc)

\* exhaustMap of the inner observable: a projected fetch is still subscribed
ExhaustBusy == reqs # {}

NextRid(live) == CHOOSE n \in 1..(Cardinality(live) + 1) : \A r \in live : r.rid # n

\* onSwitch: show the cached list of the new identity, or nothing when logged out
OnSwitch(acc) ==
  IF acc # NoAccount
  THEN IF cache[acc].set THEN cache[acc].list ELSE <<>>
  ELSE <<>>

\* (mutant) the request is sent whether or not there is an account
ProjectAlwaysFetches(acc, live) ==
  /\ error' = error
  /\ isRevalidating' = TRUE
  /\ reqs' = live \cup {[rid |-> NextRid(live), acct |-> acc, st |-> "sent", data |-> <<>>]}

\* project: subscribe fromPromise(...).pipe(mergeMap, catchErrorInto, onStart,
\* onComplete).  `live` are the fetches that stay subscribed.
Project(acc, live) ==
  /\ error' = error
  /\ isRevalidating' = TRUE
  /\ reqs' = live \cup
       {[rid |-> NextRid(live), acct |-> acc,
         st |-> IF acc = NoAccount THEN "pending" ELSE "sent", data |-> <<>>]}

\* this.revalidate() with `acc` the identity read by map(() => account$.value?.id)
RevalidateWith(acc) ==
  IF providerDisposed
  THEN \* the effect is unsubscribed: the trigger reaches no pipeline
       /\ lastEvent' = "ignored"
       /\ UNCHANGED <<lastKey, reqs, workspaces, wsOwner, cache, isRevalidating, error,
                      aborted>>
  ELSE
  IF Switches(acc)
  THEN \* switchMap unsubscribes the previous inner observable: its fetch is aborted
       /\ lastKey' = acc
       /\ workspaces' = OnSwitch(acc)
       /\ wsOwner' = acc
       /\ cache' = cache
       /\ aborted' = aborted \cup {r.acct : r \in reqs}
       /\ lastEvent' = "switched"
       /\ Project(acc, {})
  ELSE IF ExhaustBusy
       THEN /\ lastEvent' = "dropped"
            /\ UNCHANGED <<lastKey, reqs, workspaces, wsOwner, cache, isRevalidating, error,
                           aborted>>
       ELSE /\ Project(acc, reqs)
            /\ lastEvent' = "started"
            /\ UNCHANGED <<lastKey, workspaces, wsOwner, cache, aborted>>

\* waitForLoaded(): isRevalidating$.waitFor(loading => !loading); the waiting
\* callers continue when the flag is next seen false
WakeWaiters ==
  /\ UNCHANGED tData
  /\ tpc' = IF tpc = "c_wait" THEN "created" ELSE tpc
  /\ hist' = IF tpc = "c_wait"
             THEN [hist EXCEPT !.disposed = @ + 1, !.createReturned = TRUE]
             ELSE hist
  /\ del' = IF del.pc = "waiting"
         THEN [del EXCEPT !.pc = "returned", !.seen = del.id \in Ids(workspaces'),
                          !.busy = isRevalidating', !.err = error' # Null]
         ELSE del

\* onComplete of the inner observable
Complete(r) ==
  /\ reqs' = reqs \ {r}
  /\ isRevalidating' = FALSE

\* (mutant) the list is compared by reference: every commit emits
CommitAlwaysEmits(r) ==
  LET sorted == SortById(r.data) IN
  /\ cache' = [cache EXCEPT ![r.acct] = [set |-> TRUE, list |-> sorted]]
  /\ workspaces' = sorted
  /\ wsOwner' = r.acct
  /\ Complete(r)
  /\ error' = Null
  /\ lastEvent' = "committed"
  /\ UNCHANGED <<lastKey, aborted>>

\* mergeMap(data => ...) for a fetched list, and the completion that follows;
\* lastEvent is "committed" when workspaces$.next(sorted) ran, "unchanged" when
\* isEqual found the list equal and nothing was emitted
Commit(r) ==
  LET sorted == SortById(r.data) IN
  /\ cache' = [cache EXCEPT ![r.acct] = [set |-> TRUE, list |-> sorted]]
  /\ workspaces' = IF workspaces # sorted THEN sorted ELSE workspaces
  /\ wsOwner' = r.acct
  /\ Complete(r)
  /\ error' = Null
  /\ lastEvent' = IF workspaces # sorted THEN "committed" ELSE "unchanged"
  /\ UNCHANGED <<lastKey, aborted>>

\* mergeMap(data => ...) for data = null (no account)
CommitNull(r) ==
  /\ workspaces' = <<>>
  /\ wsOwner' = NoAccount
  /\ Complete(r)
  /\ error' = Null
  /\ lastEvent' = "emptied"
  /\ UNCHANGED <<lastKey, cache, aborted>>

\* (mutant) the error is not stored: the inner observable just completes
CatchErrorLost(r) ==
  /\ error' = error
  /\ Complete(r)
  /\ lastEvent' = "failed"
  /\ UNCHANGED <<lastKey, workspaces, wsOwner, cache, aborted>>

\* catchErrorInto(this.error$, ...): the error is stored in error$ and the inner
\* observable completes; a completion without an error sets error$ back to null
CatchError(r) ==
  /\ error' = "error"
  /\ Complete(r)
  /\ lastEvent' = "failed"
  /\ UNCHANGED <<lastKey, workspaces, wsOwner, cache, aborted>>

\* ---- actions of the pipeline
\* revalidate() called by the environment
CallRevalidate ==
  /\ RevalidateWith(account)
  /\ UNCHANGED <<envVars, del, tVars>>

\* the session's identity changes; AccountChanged is emitted and its listener
\* (constructor) calls revalidate()
AccountChanged(b) ==
  /\ b # account
  /\ account' = b
  /\ RevalidateWith(b)
  /\ UNCHANGED <<remote, remoteInit, del, tVars>>

\* the server answers getWorkspacesQuery with the lists of that moment, in any order
ServerHandle(r) ==
  /\ r.st = "sent"
  /\ \E s \in Perms({Meta(i, i \in remoteInit) : i \in remote[r.acct]}) :
       reqs' = (reqs \ {r}) \cup {[r EXCEPT !.st = "handled", !.data = s]}
  /\ UNCHANGED <<envVars, lastKey, workspaces, wsOwner, cache, isRevalidating, error, lastEvent,
                 aborted, del, tVars>>

FetchSuccess(r) ==
  /\ r.st = "handled"
  /\ Commit(r)
  /\ WakeWaiters
  /\ UNCHANGED envVars

FetchNull(r) ==
  /\ r.st = "pending"
  /\ CommitNull(r)
  /\ WakeWaiters
  /\ UNCHANGED envVars

\* the request fails (network or server error) before its response is delivered
FetchError(r) ==
  /\ r.st \in {"sent", "handled"}
  /\ CatchError(r)
  /\ WakeWaiters
  /\ UNCHANGED envVars

\* dispose(): this.revalidate.unsubscribe(); this.unsubscribeAccountChanged().
\* The subscription of the effect ends: the inner observable in flight is
\* unsubscribed (its request aborted) without completing, so neither
\* onComplete nor catchErrorInto runs, and no later trigger is projected.
ProviderDispose ==
  /\ ~providerDisposed
  /\ providerDisposed' = TRUE
  /\ reqs' = {}
  /\ aborted' = aborted \cup {r.acct : r \in reqs}
  /\ lastEvent' = "disposed"
  /\ UNCHANGED <<lastKey, workspaces, wsOwner, cache, isRevalidating, error>>
  /\ UNCHANGED <<envVars, del, tpc, hist, obs, item, cloudBlob, pool, ret, io, pp, src, dst,
                 isElectron, eng, ctx, localIds, notify, localDoc, localBlob, newId,
                 coll, todo, cur, newDoc, newBlob, log>>

\* ---- remote server: a workspace's first sync sets its `initialized` flag
RemoteInitialized(i) ==
  /\ \E a \in Accounts : i \in remote[a]
  /\ i \notin remoteInit
  /\ remoteInit' = remoteInit \cup {i}
  /\ UNCHANGED <<account, remote, pipeVars, del, tVars>>

\* ------------------------------------- CloudWorkspaceFlavourProvider.deleteWorkspace
\* deleteWorkspace(id): the mutation is sent
DeleteWorkspace(i) ==
  /\ del.pc = "idle"
  /\ account # NoAccount
  /\ i \in Ids(workspaces)
  /\ del' = [del EXCEPT !.pc = "sent", !.id = i, !.acct = account]
  /\ UNCHANGED <<envVars, pipeVars, tVars>>

\* the server deletes the workspace
DeleteServed ==
  /\ del.pc = "sent"
  /\ del.id \in remote[del.acct]
  /\ remote' = [a \in Accounts |-> remote[a] \ {del.id}]
  /\ del' = [del EXCEPT !.pc = "served"]
  /\ UNCHANGED <<account, remoteInit, pipeVars, tVars>>

\* the mutation throws: deleteWorkspace rejects before revalidate()
DeleteFailed ==
  /\ del.pc \in {"sent", "served"}
  /\ del' = [del EXCEPT !.pc = "failed"]
  /\ UNCHANGED <<envVars, pipeVars, tVars>>

\* the mutation returned: this.revalidate(); await this.waitForLoaded()
DeleteRevalidate ==
  /\ del.pc = "served"
  /\ RevalidateWith(account)
  /\ del' = IF isRevalidating'
            THEN [del EXCEPT !.pc = "waiting"]
            ELSE [del EXCEPT !.pc = "returned", !.seen = del.id \in Ids(workspaces'),
                             !.busy = isRevalidating', !.err = error' # Null]
  /\ UNCHANGED <<envVars, tVars>>

\* ------------------------------------------------------ documents and blobs
\* subdocuments the source root can reference, blobs the source can hold
MaxSubdocs == 2
MaxBlobs == 2
Guids == 1..MaxSubdocs
Keys == 1..MaxBlobs

\* workspace ids outside the server's range: the local source, a second local
\* workspace, and the nanoid() of LocalWorkspaceFlavourProvider.createWorkspace
CreatedId == MaxCloudId + 1
SrcLocalId == MaxCloudId + 2
OtherLocalId == MaxCloudId + 3
NanoId == MaxCloudId + 4
InitialLocalIds == <<SrcLocalId, OtherLocalId>>

Flavours == {CloudFlavour, LocalFlavour}

\* update tokens; a root document references its subdocuments
RootTok == [k |-> "root", g |-> 0]
Ref(g) == [k |-> "ref", g |-> g]
SubTok(g) == [k |-> "sub", g |-> g]
DbTok == [k |-> "db", g |-> 0]

\* doc ids: a workspace id (root document), a subdocument guid, a userdata table
WsDoc(id) == [k |-> "ws", v |-> id]
GuidDoc(g) == [k |-> "guid", v |-> g]
LocalDbDoc == [k |-> "db", v |-> 0]
AccountDbDoc == [k |-> "db", v |-> 1]

Ascending(S) == CHOOSE s \in Perms(S) : \A i, j \in DOMAIN s : i < j => s[i] < s[j]

\* yjs
ApplyUpdate(doc, bin) == doc \cup bin
EncodeStateAsUpdate(doc) == doc
GetSubdocs(root) == {t.g : t \in {x \in root : x.k = "ref"}}

\* DocStorage: an append-only update log; getDoc merges the updates of a doc id
GetDoc(store, docId) ==
  LET ups == {u \in store : u.docId = docId} IN
  [has |-> ups # {}, bin |-> UNION {u.bin : u \in ups}]
PushDocUpdate(store, docId, bin) == store \cup {[docId |-> docId, bin |-> bin]}

\* BlobStorage: get gives the records of a key (none: null), list the keys in order
BlobRec(k) ==
  [key |-> k, data |-> <<k, k + 1>>, mime |-> IF k % 2 = 1 THEN "image/png" ELSE "text/plain"]
BlobGet(store, k) == {b \in store : b.key = k}
BlobSet(store, rec) == {b \in store : b.key # rec.key} \cup {rec}
BlobList(store) == Ascending({b.key : b \in store})

Ev(e, v) == [e |-> e, v |-> v]

\* ------------------------------------------------------ transformLocalToCloud
InitializerPcs == {"i_root", "i_sub", "i_db", "i_list", "i_get", "i_set"}
PushPcs == {"p_root", "p_sub"}

\* a throw that leaves transformLocalToCloud before a DocCollection exists
Rejected(at) ==
  /\ tpc' = "failed"
  /\ hist' = [hist EXCEPT !.failedAt = at]
  /\ UNCHANGED <<tData, envVars, pipeVars, del>>

\* CloudWorkspaceFlavourProvider.createWorkspace: the create mutation is sent
CloudCreateWorkspace ==
  /\ tpc' = "c_create"
  /\ log' = Append(log, Ev("createMutation", 0))
  /\ UNCHANGED <<hist, svcVars, src, dst, isElectron, eng, ctx, localIds, notify, localDoc, localBlob, newId,
                 coll, todo, cur, newDoc, newBlob, envVars, pipeVars, del>>

\* LocalWorkspaceFlavourProvider.createWorkspace up to the first await of the
\* initializer: nanoid(), the storages, the DocCollection, initial(...)
LocalCreateWorkspace ==
  /\ newId' = NanoId
  /\ hist' = [hist EXCEPT !.constructed = TRUE]
  /\ log' = Append(log, Ev("getRoot", 0))
  /\ tpc' = "i_root"
  /\ UNCHANGED <<svcVars, src, dst, isElectron, eng, ctx, localIds, notify, localDoc, localBlob,
                 coll, todo, cur, newDoc, newBlob, envVars, pipeVars, del>>

\* create without the test of what find returned
FactoryCreateUnchecked ==
  IF dst = CloudFlavour THEN CloudCreateWorkspace ELSE LocalCreateWorkspace

\* WorkspaceFactoryService.create: find the provider of the flavour
FactoryCreate ==
  IF dst \notin Flavours
  THEN Rejected("unknown flavour")
  ELSE IF dst = CloudFlavour THEN CloudCreateWorkspace ELSE LocalCreateWorkspace

\* (mutant) the flavour of the source is not asserted
TransformCallUnchecked ==
  /\ tpc = "idle"
  /\ FactoryCreate

\* transformLocalToCloud up to its first await
TransformCall ==
  /\ tpc = "idle"
  /\ IF src.flavour # LocalFlavour
     THEN Rejected("precondition")
     ELSE FactoryCreate

\* the create mutation returned the id of a workspace the server made for the
\* session's account; the storages and the DocCollection are constructed and
\* initial(...) runs to its first await
CloudCreated ==
  /\ tpc = "c_create"
  /\ account # NoAccount
  /\ remote' = [remote EXCEPT ![account] = @ \cup {CreatedId}]
  /\ newId' = CreatedId
  /\ hist' = [hist EXCEPT !.constructed = TRUE]
  /\ log' = Append(log, Ev("getRoot", 0))
  /\ tpc' = "i_root"
  /\ UNCHANGED <<svcVars, src, dst, isElectron, eng, ctx, localIds, notify, localDoc, localBlob,
                 coll, todo, cur, newDoc, newBlob,
                 account, remoteInit, pipeVars, del>>

\* the create mutation throws
CloudCreateFailed ==
  /\ tpc = "c_create"
  /\ Rejected("createMutation")

\* where the initializer goes once its subdocument loop is over: the db transform
ToDb(l) ==
  /\ tpc' = "i_db"
  /\ todo' = <<>>
  /\ log' = Append(l, Ev("db", 0))

\* initializer: the local root document arrived; apply it, then fetch subdocuments
InitRootFetched ==
  /\ tpc = "i_root"
  /\ LET d == GetDoc(localDoc, WsDoc(src.id))
         root2 == IF d.has THEN ApplyUpdate(coll.root, d.bin) ELSE coll.root
         subs == Ascending(GetSubdocs(root2))
         l == IF d.has THEN Append(log, Ev("applyRoot", 0)) ELSE log
     IN /\ coll' = [coll EXCEPT !.root = root2]
        /\ IF subs # <<>>
           THEN /\ todo' = subs
                /\ tpc' = "i_sub"
                /\ log' = Append(l, Ev("getSub", Head(subs)))
           ELSE ToDb(l)
  /\ UNCHANGED <<hist, svcVars, src, dst, isElectron, eng, ctx, localIds, notify, localDoc, localBlob, newId,
                 cur, newDoc, newBlob, envVars, pipeVars, del>>

\* (mutant) the fetched subdocument bytes are not applied
InitSubFetchedUnapplied ==
  /\ tpc = "i_sub"
  /\ coll' = coll
  /\ IF Tail(todo) # <<>>
     THEN /\ todo' = Tail(todo)
          /\ tpc' = "i_sub"
          /\ log' = Append(log, Ev("getSub", Head(Tail(todo))))
     ELSE ToDb(log)
  /\ UNCHANGED <<hist, svcVars, src, dst, isElectron, eng, ctx, localIds, notify, localDoc, localBlob, newId,
                 cur, newDoc, newBlob, envVars, pipeVars, del>>

\* initializer: a local subdocument arrived; apply it, fetch the next one
InitSubFetched ==
  /\ tpc = "i_sub"
  /\ LET g == Head(todo)
         d == GetDoc(localDoc, GuidDoc(g))
         l == IF d.has THEN Append(log, Ev("applySub", g)) ELSE log
     IN /\ coll' = IF d.has
                   THEN [coll EXCEPT !.subs[g] = ApplyUpdate(@, d.bin)]
                   ELSE coll
        /\ IF Tail(todo) # <<>>
           THEN /\ todo' = Tail(todo)
                /\ tpc' = "i_sub"
                /\ log' = Append(l, Ev("getSub", Head(Tail(todo))))
           ELSE ToDb(l)
  /\ UNCHANGED <<hist, svcVars, src, dst, isElectron, eng, ctx, localIds, notify, localDoc, localBlob, newId,
                 cur, newDoc, newBlob, envVars, pipeVars, del>>

\* transformWorkspaceDBLocalToCloud: the local userdata table, when the local
\* storage has it, is pushed to the new storage under the account's table name
TransformWorkspaceDB(store) ==
  LET d == GetDoc(localDoc, LocalDbDoc) IN
  IF d.has THEN PushDocUpdate(store, AccountDbDoc, d.bin) ELSE store

\* initializer: the db transform returned; list the local blobs
InitDbTransformed ==
  /\ tpc = "i_db"
  /\ newDoc' = TransformWorkspaceDB(newDoc)
  /\ tpc' = "i_list"
  /\ log' = Append(log, Ev("list", 0))
  /\ UNCHANGED <<hist, svcVars, src, dst, isElectron, eng, ctx, localIds, notify, localDoc, localBlob, newId,
                 coll, todo, cur, newBlob, envVars, pipeVars, del>>

\* what follows an iteration of the blob copy loop: the next get, or the end of
\* the initializer and createWorkspace's pushDocUpdate of the root document
NextBlob(rest, l) ==
  /\ todo' = rest
  /\ IF rest # <<>>
     THEN /\ tpc' = "i_get"
          /\ log' = Append(l, Ev("get", Head(rest)))
     ELSE /\ tpc' = "p_root"
          /\ log' = Append(l, Ev("pushRoot", 0))

\* initializer: the blob list arrived
InitListed ==
  /\ tpc = "i_list"
  /\ NextBlob(BlobList(localBlob), log)
  /\ hist' = [hist EXCEPT !.listed = BlobList(localBlob)]
  /\ UNCHANGED <<svcVars, src, dst, isElectron, eng, ctx, localIds, notify, localDoc, localBlob, newId,
                 coll, cur, newDoc, newBlob, envVars, pipeVars, del>>

\* initializer: get(key) returned; a record is set, null is skipped
InitBlobGot ==
  /\ tpc = "i_get"
  /\ LET got == BlobGet(localBlob, Head(todo)) IN
     IF got # {}
     THEN /\ cur' = got
          /\ tpc' = "i_set"
          /\ UNCHANGED <<todo, log>>
     ELSE /\ cur' = {}
          /\ NextBlob(Tail(todo), Append(log, Ev("skip", Head(todo))))
  /\ UNCHANGED <<hist, svcVars, src, dst, isElectron, eng, ctx, localIds, notify, localDoc, localBlob, newId,
                 coll, newDoc, newBlob, envVars, pipeVars, del>>

\* (mutant) the copy loses the content type
CopiedRecordUntyped(rec) == [rec EXCEPT !.mime = ""]

\* the record blobStorage.set(blob) stores
CopiedRecord(rec) == rec

\* initializer: blobStorage.set(blob) returned
InitBlobSet ==
  /\ tpc = "i_set"
  /\ \E rec \in cur :
       /\ newBlob' = BlobSet(newBlob, CopiedRecord(rec))
       /\ NextBlob(Tail(todo), Append(log, Ev("set", rec.key)))
  /\ cur' = {}
  /\ UNCHANGED <<hist, svcVars, src, dst, isElectron, eng, ctx, localIds, notify, localDoc, localBlob, newId,
                 coll, newDoc, envVars, pipeVars, del>>

\* LocalWorkspaceFlavourProvider.createWorkspace after the pushes: the id is
\* appended to the persisted list and broadcast, the collection disposed, the
\* metadata returned
LocalFinish ==
  /\ localIds' = Append(localIds, newId)
  /\ notify' = Append(notify, newId)
  /\ hist' = [hist EXCEPT !.disposed = @ + 1, !.createReturned = TRUE]
  /\ tpc' = "created"
  /\ UNCHANGED <<envVars, pipeVars, del>>

\* CloudWorkspaceFlavourProvider.createWorkspace after the pushes:
\* this.revalidate(); await this.waitForLoaded(); finally dispose; return
CloudFinish ==
  /\ RevalidateWith(account)
  /\ tpc' = IF isRevalidating' THEN "c_wait" ELSE "created"
  /\ hist' = IF isRevalidating'
             THEN hist
             ELSE [hist EXCEPT !.disposed = @ + 1, !.createReturned = TRUE]
  /\ UNCHANGED <<localIds, notify, envVars, del>>

Finish == IF dst = CloudFlavour THEN CloudFinish ELSE LocalFinish

\* (mutant) the subdocuments are not pushed
PushedRootOnly ==
  /\ tpc = "p_root"
  /\ newDoc' = PushDocUpdate(newDoc, WsDoc(newId), EncodeStateAsUpdate(coll.root))
  /\ Finish
  /\ log' = Append(log, Ev("pushed", 0))
  /\ todo' = <<>>
  /\ UNCHANGED <<svcVars, src, dst, isElectron, eng, ctx, localDoc, localBlob, newId, coll, cur, newBlob>>

\* createWorkspace: the root document's pushDocUpdate returned
PushedRoot ==
  /\ tpc = "p_root"
  /\ newDoc' = PushDocUpdate(newDoc, WsDoc(newId), EncodeStateAsUpdate(coll.root))
  /\ LET subs == Ascending(GetSubdocs(coll.root)) IN
     IF subs # <<>>
     THEN /\ todo' = subs
          /\ tpc' = "p_sub"
          /\ log' = Append(log, Ev("pushSub", Head(subs)))
          /\ UNCHANGED <<hist, localIds, notify, envVars, pipeVars, del>>
     ELSE /\ Finish
          /\ log' = Append(log, Ev("pushed", 0))
          /\ todo' = <<>>
  /\ UNCHANGED <<svcVars, src, dst, isElectron, eng, ctx, localDoc, localBlob, newId, coll, cur, newBlob>>

\* createWorkspace: a subdocument's pushDocUpdate returned
PushedSub ==
  /\ tpc = "p_sub"
  /\ newDoc' = PushDocUpdate(newDoc, GuidDoc(Head(todo)),
                             EncodeStateAsUpdate(coll.subs[Head(todo)]))
  /\ todo' = Tail(todo)
  /\ IF Tail(todo) # <<>>
     THEN /\ tpc' = "p_sub"
          /\ log' = Append(log, Ev("pushSub", Head(Tail(todo))))
          /\ UNCHANGED <<hist, localIds, notify, envVars, pipeVars, del>>
     ELSE /\ Finish
          /\ log' = Append(log, Ev("pushed", 0))
  /\ UNCHANGED <<svcVars, src, dst, isElectron, eng, ctx, localDoc, localBlob, newId, coll, cur, newBlob>>

\* (mutant) the error of a failed step is swallowed and the call goes on
StepFailSwallowed ==
  /\ tpc \in InitializerPcs \cup PushPcs
  /\ tpc' = "created"
  /\ hist' = [hist EXCEPT !.failedAt = tpc, !.disposed = @ + 1]
  /\ UNCHANGED <<tData, envVars, pipeVars, del>>

\* (mutant) no finally block: a failed step leaves the collection undisposed
StepFailUndisposed ==
  /\ tpc \in InitializerPcs \cup PushPcs
  /\ tpc' = "failed"
  /\ hist' = [hist EXCEPT !.failedAt = tpc]
  /\ UNCHANGED <<tData, envVars, pipeVars, del>>

\* an awaited step inside createWorkspace's try block throws: the finally block
\* disposes the collection and the error leaves transformLocalToCloud
StepFail ==
  /\ tpc \in InitializerPcs \cup PushPcs
  /\ tpc' = "failed"
  /\ hist' = [hist EXCEPT !.failedAt = tpc, !.disposed = @ + 1]
  /\ UNCHANGED <<tData, envVars, pipeVars, del>>

\* factory.create returned: destroy.deleteWorkspace(local.meta), which is the
\* local provider's deleteWorkspace(id) up to its await
TransformDelete ==
  /\ tpc = "created"
  /\ localIds' = SelectSeq(localIds, LAMBDA x : x # src.id)
  /\ hist' = [hist EXCEPT !.deleteInvoked = TRUE]
  /\ IF isElectron
     THEN /\ tpc' = "d_electron"
          /\ notify' = notify
     ELSE /\ tpc' = "done"
          /\ notify' = Append(notify, src.id)
  /\ UNCHANGED <<svcVars, src, dst, isElectron, eng, ctx, localDoc, localBlob, newId, coll, todo, cur, newDoc,
                 newBlob, log, envVars, pipeVars, del>>

\* electronApi.handler.workspace.delete(id) returned: broadcast, return
ElectronDeleted ==
  /\ tpc = "d_electron"
  /\ notify' = Append(notify, src.id)
  /\ tpc' = "done"
  /\ UNCHANGED <<hist, svcVars, src, dst, isElectron, eng, ctx, localIds, localDoc, localBlob, newId,
                 coll, todo, cur, newDoc, newBlob, log, envVars, pipeVars, del>>

\* electronApi.handler.workspace.delete(id) throws
ElectronFailed ==
  /\ tpc = "d_electron"
  /\ Rejected("electron")

\* a blob of the source workspace is deleted permanently while the copy runs
LocalBlobDelete(k) ==
  /\ tpc \in {"i_list", "i_get", "i_set"}
  /\ BlobGet(localBlob, k) # {}
  /\ localBlob' = localBlob \ BlobGet(localBlob, k)
  /\ UNCHANGED <<tpc, hist, svcVars, src, dst, isElectron, eng, ctx, localIds, notify, localDoc, newId, coll,
                 todo, cur, newDoc, newBlob, log, envVars, pipeVars, del>>

\* ------------------------------------------------------------ WorkspaceEngine
\* start() calls made on one engine
MaxStarts == 2

\* this.doc.addPriority(rootDoc.guid, 100)
RootPriority == 100

NotInitialized == "Engine is not initialized"
AlreadyStarted == "Engine is already started"

\* the fields of a WorkspaceEngine (worker 0: undefined) with, as history, the
\* calls it has made on its collaborators (log), the workers its provider has
\* opened, the start() calls so far, and the outcome of the last call made on it
EngineNew ==
  [worker |-> 0, started |-> FALSE, disposables |-> <<>>, log |-> <<>>, opened |-> 0,
   starts |-> 0, disposed |-> FALSE,
   out |-> [op |-> "none", threw |-> FALSE, val |-> "none", w |-> 0]]

Threw(op, msg) == [op |-> op, threw |-> TRUE, val |-> msg, w |-> 0]
Returned(op, val, w) == [op |-> op, threw |-> FALSE, val |-> val, w |-> w]

\* the frontend of the worker each accessor returns
Accessors == {"doc", "blob", "awareness"}
FrontendOf(acc) ==
  CASE acc = "doc" -> "docFrontend"
    [] acc = "blob" -> "blobFrontend"
    [] acc = "awareness" -> "awarenessFrontend"

\* (mutant) an accessor of an engine without a worker returns nothing instead
\* of throwing
ReadUnguarded(e, acc) ==
  IF e.worker = 0 THEN Returned(acc, "undefined", 0)
  ELSE Returned(acc, FrontendOf(acc), e.worker)

\* get doc() / get blob() / get awareness()
Read(e, acc) ==
  IF e.worker = 0 THEN Threw(acc, NotInitialized)
  ELSE Returned(acc, FrontendOf(acc), e.worker)

\* (mutant) the root document is added before its priority is registered
StartStepsAddDocFirst ==
  <<"emitBeforeStart", "openWorker", "addDoc", "addPriority", "docStart", "awarenessConnect">>

\* the calls start() makes once it has set `started`, in program order
StartSteps ==
  <<"emitBeforeStart", "openWorker", "addPriority", "addDoc", "docStart", "awarenessConnect">>

\* the steps that go through an accessor of the engine
WorkerSteps == {"addPriority", "addDoc", "docStart", "awarenessConnect"}

StepEvent(s) ==
  CASE s = "addPriority" -> Ev(s, RootPriority)
    [] s = "addDoc" -> Ev(s, 1)          \* isRoot = true
    [] OTHER -> Ev(s, 0)

\* (mutant) the worker's dispose is registered together with doc.stop, after
\* doc.start() has returned
StepDoneLateRegister(e, s) ==
  LET l == [e EXCEPT !.log = Append(@, StepEvent(s))] IN
  CASE s = "openWorker" -> [l EXCEPT !.opened = @ + 1, !.worker = e.opened + 1]
    [] s = "docStart" -> [l EXCEPT !.disposables = @ \o <<"disposeWorker", "docStop">>]
    [] OTHER -> l

\* one step of start() that returns: what it leaves in the engine
StepDone(e, s) ==
  LET l == [e EXCEPT !.log = Append(@, StepEvent(s))] IN
  CASE s = "openWorker" ->
         [l EXCEPT !.opened = @ + 1, !.worker = e.opened + 1,
                   !.disposables = Append(@, "disposeWorker")]
    [] s = "docStart" -> [l EXCEPT !.disposables = Append(@, "docStop")]
    [] OTHER -> l

\* start() from its step `steps[1]` on; the collaborator's call of step number
\* `failAt` throws (0: none does).  A step that reads an accessor of an engine
\* without a worker throws before it calls anything.
RECURSIVE RunSteps(_, _, _, _)
RunSteps(e, steps, i, failAt) ==
  IF steps = <<>> THEN [e EXCEPT !.out = Returned("start", "undefined", 0)]
  ELSE LET s == Head(steps) IN
       IF s \in WorkerSteps /\ e.worker = 0
       THEN [e EXCEPT !.out = Threw("start", NotInitialized)]
       ELSE IF i = failAt
            THEN [e EXCEPT !.log = Append(@, StepEvent(s)), !.out = Threw("start", s)]
            ELSE RunSteps(StepDone(e, s), Tail(steps), i + 1, failAt)

\* (mutant) start() does not look at `started`
StartUnguarded(e, failAt) ==
  RunSteps([e EXCEPT !.started = TRUE, !.starts = @ + 1], StartSteps, 1, failAt)

\* start()
Start(e, failAt) ==
  IF e.started
  THEN [e EXCEPT !.starts = @ + 1, !.out = Threw("start", AlreadyStarted)]
  ELSE RunSteps([e EXCEPT !.started = TRUE, !.starts = @ + 1], StartSteps, 1, failAt)

\* Entity.dispose(): the registered disposables run, unwinding in reverse
\* acquisition order (the last one pushed first)
Dispose(e) ==
  LET n == Len(e.disposables) IN
  [e EXCEPT !.log = @ \o [i \in 1..n |-> Ev(e.disposables[n + 1 - i], 0)],
            !.disposables = <<>>, !.disposed = TRUE,
            !.out = Returned("dispose", "undefined", 0)]

EngineFrame ==
  UNCHANGED <<envVars, pipeVars, del, tpc, hist, svcVars, src, dst, isElectron, ctx, localIds, notify,
              localDoc, localBlob, newId, coll, todo, cur, newDoc, newBlob, log>>

\* ---- actions on the engine
EngineStart(failAt) ==
  /\ eng.starts < MaxStarts
  /\ eng' = Start(eng, failAt)
  /\ EngineFrame

EngineRead(acc) ==
  /\ eng' = [eng EXCEPT !.out = Read(eng, acc)]
  /\ EngineFrame

EngineDispose ==
  /\ ~eng.disposed
  /\ eng' = Dispose(eng)
  /\ EngineFrame

\* ------------------------------------------------- the shared local id list
\* createWorkspace / deleteWorkspace calls made in one execution context
MaxCtxOps == 2

\* two execution contexts (tabs, windows) of one origin: each runs its own
\* thread and they share localStorage and the broadcast channel
Contexts == {1, 2}

CtxIdle == [pc |-> "idle", op |-> "none", id |-> 0, snap |-> <<>>, n |-> 0, wrote |-> <<>>]

\* the nanoid() of the n-th call of context c
FreshId(c, n) == NanoId + c * (MaxCtxOps + 1) + n

\* the updater each operation passes to setLocalWorkspaceIds
Updater(op, id, ids) ==
  IF op = "create" THEN Append(ids, id) ELSE SelectSeq(ids, LAMBDA x : x # id)

CtxFrame ==
  UNCHANGED <<envVars, pipeVars, del, tpc, hist, svcVars, src, dst, isElectron, eng,
              localDoc, localBlob, newId, coll, todo, cur, newDoc, newBlob, log>>

\* createWorkspace in context c has pushed its documents and calls
\* setLocalWorkspaceIds(ids => [...ids, id])
CtxCreate(c) ==
  /\ ctx[c].pc = "idle"
  /\ ctx[c].n < MaxCtxOps
  /\ ctx' = [ctx EXCEPT ![c].pc = "get", ![c].op = "create",
                        ![c].id = FreshId(c, ctx[c].n + 1), ![c].n = @ + 1]
  /\ UNCHANGED <<localIds, notify>>
  /\ CtxFrame

\* deleteWorkspace(i) in context c calls setLocalWorkspaceIds(ids => ids.filter(...))
CtxDelete(c, i) ==
  /\ ctx[c].pc = "idle"
  /\ ctx[c].n < MaxCtxOps
  /\ ctx' = [ctx EXCEPT ![c].pc = "get", ![c].op = "delete", ![c].id = i, ![c].n = @ + 1]
  /\ UNCHANGED <<localIds, notify>>
  /\ CtxFrame

\* setLocalWorkspaceIds evaluates its argument: getLocalWorkspaceIds() reads and
\* parses the item
CtxGetIds(c) ==
  /\ ctx[c].pc = "get"
  /\ ctx' = [ctx EXCEPT ![c].pc = "set", ![c].snap = localIds]
  /\ UNCHANGED <<localIds, notify>>
  /\ CtxFrame

\* localStorage.setItem of the updated list, and what follows it without an
\* await: the broadcast, or for a delete on the desktop the electron call
CtxSetIds(c) ==
  /\ ctx[c].pc = "set"
  /\ localIds' = Updater(ctx[c].op, ctx[c].id, ctx[c].snap)
  /\ LET waits == ctx[c].op = "delete" /\ isElectron IN
     /\ ctx' = [ctx EXCEPT ![c].pc = IF waits THEN "electron" ELSE "idle",
                           ![c].wrote = Append(@, [op |-> ctx[c].op, id |-> ctx[c].id])]
     /\ notify' = IF waits THEN notify ELSE Append(notify, ctx[c].id)
  /\ CtxFrame

\* electronApi.handler.workspace.delete(id) returned: postMessage(id)
CtxElectronDeleted(c) ==
  /\ ctx[c].pc = "electron"
  /\ notify' = Append(notify, ctx[c].id)
  /\ ctx' = [ctx EXCEPT ![c].pc = "idle"]
  /\ UNCHANGED localIds
  /\ CtxFrame

\* electronApi.handler.workspace.delete(id) rejected: deleteWorkspace rejects
CtxElectronFailed(c) ==
  /\ ctx[c].pc = "electron"
  /\ ctx' = [ctx EXCEPT ![c].pc = "idle"]
  /\ UNCHANGED <<localIds, notify>>
  /\ CtxFrame

\* ------------------------------- LocalWorkspaceFlavourProvider.workspaces$
LocalMeta(i) == [id |-> i, flavour |-> LocalFlavour]

\* getLocalWorkspaceIds().map(id => ({ id, flavour: 'local' }))
LocalMetas(ids) == [k \in DOMAIN ids |-> LocalMeta(ids[k])]

\* a context that has not subscribed: the LiveData holds its initial value []
\* (`last` is <<>> for null, <<list>> for a list)
ObsNew == [sub |-> FALSE, last |-> <<>>, value |-> <<>>, seen |-> 0, nexts |-> 0]

\* emit without the isEqual(last, value) test
EmitAlways(o, ids) ==
  [o EXCEPT !.last = <<LocalMetas(ids)>>, !.value = LocalMetas(ids), !.nexts = @ + 1]

\* emit(): read the list, and next() it unless it equals the last one emitted
Emit(o, ids) ==
  IF o.last = <<LocalMetas(ids)>>
  THEN o
  ELSE [o EXCEPT !.last = <<LocalMetas(ids)>>, !.value = LocalMetas(ids), !.nexts = @ + 1]

ObsFrame ==
  UNCHANGED <<item, cloudBlob, pool, ret, uiVars, envVars, pipeVars, del, tpc, hist, src, dst, isElectron, eng, ctx, localIds,
              localDoc, localBlob, newId, coll, todo, cur, newDoc, newBlob, log>>

\* the Observable is subscribed in context c: emit(), then listen on a new
\* channel object, which receives what is posted from now on
ObsSubscribe(c) ==
  /\ ~obs[c].sub
  /\ obs' = [obs EXCEPT ![c] = [Emit(@, localIds) EXCEPT !.sub = TRUE, !.seen = Len(notify)]]
  /\ UNCHANGED notify
  /\ ObsFrame

\* the channel of context c delivers the next message: the listener is emit
ObsDeliver(c) ==
  /\ obs[c].sub
  /\ obs[c].seen < Len(notify)
  /\ obs' = [obs EXCEPT ![c] = [Emit(@, localIds) EXCEPT !.seen = @ + 1]]
  /\ UNCHANGED notify
  /\ ObsFrame

\* revalidate() in context c: notifyChannel.postMessage(null)
ObsRevalidate(c) ==
  /\ ctx[c].pc = "idle"
  /\ ctx[c].n < MaxCtxOps
  /\ notify' = Append(notify, 0)
  /\ ctx' = [ctx EXCEPT ![c].n = @ + 1]
  /\ UNCHANGED <<obs, item, cloudBlob, pool, ret, uiVars, envVars, pipeVars, del, tpc, hist, src, dst, isElectron, eng, localIds,
                 localDoc, localBlob, newId, coll, todo, cur, newDoc, newBlob, log>>

\* ------------------------------ getLocalWorkspaceIds on the item as stored
\* length of the id arrays the stored item is drawn from
MaxItemLen == 2

\* a stored item: missing (getItem gives null), text that is not JSON, or
\* the text of a JSON value of type t (v: the elements of an array, the
\* characters of a string, 0 standing for a character)
Item(k, t, v) == [k |-> k, t |-> t, v |-> v]
ItemOf(ids) == Item("json", "array", ids)

IdArrays ==
  UNION {[1..n -> Range(InitialLocalIds)] : n \in 0..MaxItemLen}

Items ==
  {Item("missing", "none", <<>>), Item("text", "none", <<>>),
   Item("json", "null", <<>>), Item("json", "object", <<>>),
   Item("json", "number", <<>>), Item("json", "string", <<0>>)}
  \cup {ItemOf(ids) : ids \in IdArrays}

NoCall == [op |-> "none", arg |-> 0, read |-> Item("missing", "none", <<>>),
           threw |-> FALSE, val |-> <<>>]
Called(op, arg, read, threw, val) ==
  [op |-> op, arg |-> arg, read |-> read, threw |-> threw, val |-> val]

\* JSON.parse(localStorage.getItem(KEY) ?? '[]') in a try whose catch
\* returns []: whatever value the text parses to is returned as it is
GetLocalWorkspaceIds(it) ==
  IF it.k = "json" THEN [t |-> it.t, v |-> it.v] ELSE [t |-> "array", v |-> <<>>]

TypeError == "TypeError"

\* emit of workspaces$: ids.map(...) is a call of a property of ids
EmitOn(it) ==
  LET ids == GetLocalWorkspaceIds(it) IN
  IF ids.t = "array"
  THEN Called("emit", 0, it, FALSE, LocalMetas(ids.v))
  ELSE Called("emit", 0, it, TRUE, TypeError)

\* setLocalWorkspaceIds(ids => [...ids, id]): the spread iterates ids, which
\* an array and a string allow
CreateOn(it, id) ==
  LET ids == GetLocalWorkspaceIds(it) IN
  IF ids.t \in {"array", "string"}
  THEN Called("create", id, it, FALSE, Append(ids.v, id))
  ELSE Called("create", id, it, TRUE, TypeError)

\* setLocalWorkspaceIds(ids => ids.filter(x => x !== id))
DeleteOn(it, id) ==
  LET ids == GetLocalWorkspaceIds(it) IN
  IF ids.t = "array"
  THEN Called("delete", id, it, FALSE, SelectSeq(ids.v, LAMBDA x : x # id))
  ELSE Called("delete", id, it, TRUE, TypeError)

ItemFrame ==
  UNCHANGED <<obs, cloudBlob, pool, uiVars, envVars, pipeVars, del, tpc, hist, src, dst, isElectron, eng, ctx, localIds,
              notify, localDoc, localBlob, newId, coll, todo, cur, newDoc, newBlob, log>>

\* workspaces$ emits from the stored item
ItemEmit ==
  /\ ret' = EmitOn(item)
  /\ UNCHANGED item
  /\ ItemFrame

\* createWorkspace / deleteWorkspace reach setLocalWorkspaceIds: the updater
\* runs on what getLocalWorkspaceIds returns; setItem is reached only when it
\* did not throw
ItemUpdate(op, id) ==
  /\ ret' = IF op = "create" THEN CreateOn(item, id) ELSE DeleteOn(item, id)
  /\ item' = IF ret'.threw THEN item ELSE ItemOf(ret'.val)
  /\ ItemFrame

\* ------------------------------------------------------------ CloudBlobStorage
\* calls made on one CloudBlobStorage
MaxBlobOps == 3

\* res.status === 404
NotFound == 404

\* no blob stored, none ever set, no call made
CloudBlobNew == [st |-> [k \in Keys |-> "absent"], set |-> {}, n |-> 0]

\* the server's answer to GET /api/workspaces/:id/blobs/:key: the body of a
\* stored blob, soft-deleted or not, or the not-found status
ServerGet(st, k) ==
  IF st[k] \in {"live", "soft"}
  THEN [status |-> 200, data |-> BlobRec(k).data, mime |-> BlobRec(k).mime]
  ELSE [status |-> NotFound, data |-> <<>>, mime |-> "application/json"]

\* the server's handling of the three mutations
ServerApply(st, m) ==
  CASE m.q = "setBlob" -> [st EXCEPT ![m.key] = "live"]
    [] m.q = "deleteBlob" ->
         [st EXCEPT ![m.key] = IF m.permanently THEN "absent"
                               ELSE IF @ = "live" THEN "soft" ELSE @]
    [] m.q = "releaseDeletedBlobs" ->
         [k \in Keys |-> IF st[k] = "soft" THEN "absent" ELSE st[k]]

\* what connection.fetch can settle with: the server's answer, the answer of
\* a server that fails (an error page with a failure status), or a rejection
FetchOutcomes(st, k) ==
  {[threw |-> FALSE, res |-> ServerGet(st, k)],
   [threw |-> FALSE, res |-> [status |-> 500, data |-> <<0>>, mime |-> "text/html"]],
   [threw |-> TRUE, res |-> [status |-> 0, data |-> <<>>, mime |-> ""]]}

\* get(key) once connection.fetch has settled with `out`; bodyOk: res.blob()
\* and blob.arrayBuffer() resolve.  A returned value is {} for null, {record}
\* for a record.
CloudBlobGet(k, out, bodyOk) ==
  IF out.threw THEN Called("get", k, out.res, TRUE, "fetch error")
  ELSE IF out.res.status = NotFound THEN Called("get", k, out.res, FALSE, {})
  ELSE IF ~bodyOk THEN Called("get", k, out.res, TRUE, "blob download error")
  ELSE Called("get", k, out.res, FALSE,
              {[key |-> k, data |-> out.res.data, mime |-> out.res.mime]})

\* the variables of deleteBlobMutation with the flag dropped
DeleteVariablesUnflagged(k, permanently) ==
  [q |-> "deleteBlob", key |-> k, permanently |-> TRUE]

\* the variables delete(key, permanently) sends with deleteBlobMutation
DeleteVariables(k, permanently) ==
  [q |-> "deleteBlob", key |-> k, permanently |-> permanently]

CloudBlobFrame ==
  UNCHANGED <<obs, item, pool, uiVars, envVars, pipeVars, del, tpc, hist, src, dst, isElectron, eng,
              ctx, localIds, notify, localDoc, localBlob, newId, coll, todo, cur, newDoc,
              newBlob, log>>

\* ---- actions: the calls on the storage, each with the server's handling
CloudBlobGetCall(k) ==
  /\ cloudBlob.n < MaxBlobOps
  /\ \E out \in FetchOutcomes(cloudBlob.st, k), bodyOk \in BOOLEAN :
       ret' = CloudBlobGet(k, out, bodyOk)
  /\ cloudBlob' = [cloudBlob EXCEPT !.n = @ + 1]
  /\ CloudBlobFrame

CloudBlobSetCall(k) ==
  /\ cloudBlob.n < MaxBlobOps
  /\ cloudBlob' = [st |-> ServerApply(cloudBlob.st, [q |-> "setBlob", key |-> k]),
                   set |-> cloudBlob.set \cup {k}, n |-> cloudBlob.n + 1]
  /\ ret' = Called("set", k, Item("missing", "none", <<>>), FALSE, {})
  /\ CloudBlobFrame

CloudBlobDeleteCall(k, permanently) ==
  /\ cloudBlob.n < MaxBlobOps
  /\ cloudBlob' = [cloudBlob EXCEPT !.st = ServerApply(@, DeleteVariables(k, permanently)),
                                    !.n = @ + 1]
  /\ ret' = Called("delete", <<k, permanently>>, Item("missing", "none", <<>>), FALSE, {})
  /\ CloudBlobFrame

CloudBlobReleaseCall ==
  /\ cloudBlob.n < MaxBlobOps
  /\ cloudBlob' = [cloudBlob EXCEPT !.st = ServerApply(@, [q |-> "releaseDeletedBlobs"]),
                                    !.n = @ + 1]
  /\ ret' = Called("release", 0, Item("missing", "none", <<>>), FALSE, {})
  /\ CloudBlobFrame

\* ------------------------------------ backend registry and provider queries
\* a provider's flavour is 'local' or the id of its server; its peerId is its
\* flavour
Servers == {CloudFlavour, "selfhosted"}
ProviderFlavours == {LocalFlavour} \cup Servers
NoUrl == <<>>
BaseUrl(f) == <<"https", f>>

\* the workspace ids of the model
WorkspaceIds == 1..FreshId(2, MaxCtxOps)

\* one backend spec { name, opts: { peer, type, id, serverBaseUrl? } }
StorageSpec(name, f, id, url) ==
  [name |-> name, opts |-> [peer |-> f, type |-> "workspace", id |-> id, serverBaseUrl |-> url]]

\* the local group without its sync storage
LocalGroupUnsynced(f, id) ==
  <<StorageSpec("IndexedDBDocStorage", f, id, NoUrl),
    StorageSpec("IndexedDBBlobStorage", f, id, NoUrl),
    StorageSpec("BroadcastChannelAwarenessStorage", f, id, NoUrl)>>

\* `local` of getEngineWorkerInitOptions: the same four specs in both providers
LocalGroup(f, id) ==
  <<StorageSpec("IndexedDBDocStorage", f, id, NoUrl),
    StorageSpec("IndexedDBBlobStorage", f, id, NoUrl),
    StorageSpec("IndexedDBSyncStorage", f, id, NoUrl),
    StorageSpec("BroadcastChannelAwarenessStorage", f, id, NoUrl)>>

\* getEngineWorkerInitOptions(workspaceId) of the provider of flavour f
GetEngineWorkerInitOptions(f, id) ==
  [local |-> LocalGroup(f, id),
   remotes |-> IF f = LocalFlavour THEN <<>>
               ELSE <<<<StorageSpec("CloudDocStorage", f, id, BaseUrl(f)),
                        StorageSpec("CloudBlobStorage", f, id, BaseUrl(f)),
                        StorageSpec("CloudAwarenessStorage", f, id, BaseUrl(f))>>>>]

\* the keys of AvailableStorageImplementations: cloud, idbv1, idb
Registered ==
  {"CloudDocStorage", "CloudBlobStorage", "CloudAwarenessStorage",
   "IndexedDBV1DocStorage", "IndexedDBV1BlobStorage",
   "IndexedDBDocStorage", "IndexedDBBlobStorage", "IndexedDBSyncStorage",
   "BroadcastChannelAwarenessStorage"}

\* names a backend spec can carry: the registered ones and some that are not
StorageNames == Registered \cup {"SqliteDocStorage", "SqliteBlobStorage", "SqliteSyncStorage", "MemoryDocStorage", ""}

Undefined == "undefined"

\* getAvailableStorageImplementations(name): the property `name` of the table
GetAvailableStorageImplementations(name) ==
  Called("resolve", name, Item("missing", "none", <<>>), FALSE,
         IF name \in Registered THEN name ELSE Undefined)

\* the table as the reduce builds it in a given build: its key for a class is
\* curr.name, the class's runtime constructor name, which is the identifier
\* unless the build renamed the class (renamed: the classes it renamed, whose
\* runtime name is then no identifier).  The lookup of an identifier finds
\* the class whose runtime name is that string.
\* the builds considered: none, one or all of the classes renamed
Builds == {{}, Registered} \cup {{c} : c \in Registered}

GetAvailableByIdentifier(identifier, renamed) ==
  Called("resolveBuilt", [identifier |-> identifier, renamed |-> renamed],
         Item("missing", "none", <<>>), FALSE,
         IF identifier \in Registered \ renamed THEN identifier ELSE Undefined)

\* the root-document bytes a storage can hold for a workspace: none (<<>>) or
\* one byte array
LocalBytes == {<<>>, <<"localBin">>}
CloudBytes == {<<>>, <<"cloudBin">>}
Infos == [isOwner : BOOLEAN, isAdmin : BOOLEAN, team : BOOLEAN]

\* getWorkspaceProfile handing the renderer the remote bytes first
GetWorkspaceProfileRemoteFirst(f, localData, cloudData, info) ==
  Called("profile", [f |-> f, localData |-> localData, cloudData |-> cloudData, info |-> info],
         IF localData \o cloudData = <<>> THEN <<>> ELSE <<cloudData \o localData>>,
         FALSE,
         [named |-> localData \o cloudData # <<>>, isOwner |-> info.isOwner,
          isAdmin |-> info.isAdmin, isTeam |-> info.team])

\* getWorkspaceProfile(id) of the provider of flavour f, the storages holding
\* localData / cloudData and the server answering info.  `read` is the list
\* of renderWorkspaceProfile calls, each with its argument; `named` says
\* whether name and avatar are set from the renderer's result.  The local
\* provider reads no cloud storage and no info: it answers isOwner = true and
\* leaves isAdmin and isTeam unset.
GetWorkspaceProfile(f, localData, cloudData, info) ==
  LET given == [f |-> f, localData |-> localData, cloudData |-> cloudData, info |-> info] IN
  IF f = LocalFlavour
  THEN Called("profile", given,
              IF localData = <<>> THEN <<>> ELSE <<localData>>, FALSE,
              [named |-> localData # <<>>, isOwner |-> TRUE,
               isAdmin |-> Undefined, isTeam |-> Undefined])
  ELSE Called("profile", given,
              IF localData \o cloudData = <<>> THEN <<>> ELSE <<localData \o cloudData>>,
              FALSE,
              [named |-> localData \o cloudData # <<>>, isOwner |-> info.isOwner,
               isAdmin |-> info.isAdmin, isTeam |-> info.team])

\* ---- actions: one call each, on any argument
QueryFrame ==
  UNCHANGED <<obs, item, cloudBlob, pool, uiVars, envVars, pipeVars, del, tpc, hist, src, dst,
              isElectron, eng, ctx, localIds, notify, localDoc, localBlob, newId, coll, todo, cur, newDoc,
              newBlob, log>>

OptionsCall(f, id) ==
  /\ ret' = Called("options", <<f, id>>, Item("missing", "none", <<>>), FALSE,
                   GetEngineWorkerInitOptions(f, id))
  /\ QueryFrame

ResolveCall(name) ==
  /\ ret' = GetAvailableStorageImplementations(name)
  /\ QueryFrame

ResolveBuiltCall(identifier, renamed) ==
  /\ ret' = GetAvailableByIdentifier(identifier, renamed)
  /\ QueryFrame

ProfileCall(f, localData, cloudData, info) ==
  /\ f = LocalFlavour => (cloudData = <<>> /\ info = [isOwner |-> TRUE, isAdmin |-> FALSE, team |-> FALSE])
  /\ ret' = GetWorkspaceProfile(f, localData, cloudData, info)
  /\ QueryFrame

\* ------------------------------------------- CloudWorkspaceFlavoursProvider
\* emissions of servers$ and subscriptions of workspaceFlavours$ together
MaxEmits == 3

\* objs: the pool's entry per server id (pid 0: none), provs: the providers
\* constructed, refs: every ref taken, sub: workspaceFlavours$ is subscribed
PoolNew ==
  [objs |-> [s \in Servers |-> [pid |-> 0, rc |-> 0]], provs |-> <<>>, refs |-> <<>>,
   sub |-> FALSE, n |-> 0]

\* the map callback without pool.get: a provider is made and put every time
AcquireAlwaysNew(p, s) ==
  [p EXCEPT !.provs = Append(@, [server |-> s, disposed |-> 0]),
            !.objs[s] = [pid |-> Len(p.provs) + 1, rc |-> 1],
            !.refs = Append(@, [pid |-> Len(p.provs) + 1, released |-> 0])]

\* the map callback for one server: pool.get(server.id), which counts a
\* reference on the entry, or a new provider, revalidate() and pool.put
Acquire(p, s) ==
  IF p.objs[s].pid # 0
  THEN [p EXCEPT !.objs[s].rc = @ + 1,
                 !.refs = Append(@, [pid |-> p.objs[s].pid, released |-> 0])]
  ELSE [p EXCEPT !.provs = Append(@, [server |-> s, disposed |-> 0]),
                 !.objs[s] = [pid |-> Len(p.provs) + 1, rc |-> 1],
                 !.refs = Append(@, [pid |-> Len(p.provs) + 1, released |-> 0])]

\* servers.map(...) over the emitted servers
RECURSIVE AcquireAll(_, _)
AcquireAll(p, S) ==
  IF S = {} THEN p
  ELSE LET s == CHOOSE x \in S : TRUE IN AcquireAll(Acquire(p, s), S \ {s})

\* the inner observable's teardown: refs.forEach(ref => ref.release()); a
\* release takes its reference off the entry the ref was made for
ReleaseAll(p) ==
  [p EXCEPT !.refs = [i \in DOMAIN p.refs |-> [p.refs[i] EXCEPT !.released = 1]],
            !.objs = [s \in Servers |->
                        [p.objs[s] EXCEPT !.rc = @ - Cardinality(
                           {i \in DOMAIN p.refs : /\ p.refs[i].released = 0
                                                  /\ p.refs[i].pid = p.objs[s].pid})]]]

\* the pool drops the entries nobody references: onDelete(obj) is obj.dispose(),
\* which unsubscribes revalidate and the AccountChanged listener
Gc(p) ==
  [p EXCEPT !.objs = [s \in Servers |-> IF p.objs[s].rc = 0 THEN [pid |-> 0, rc |-> 0]
                                        ELSE p.objs[s]],
            !.provs = [i \in DOMAIN p.provs |->
                         IF p.objs[p.provs[i].server] = [pid |-> i, rc |-> 0]
                         THEN [p.provs[i] EXCEPT !.disposed = @ + 1]
                         ELSE p.provs[i]]]

PoolFrame ==
  UNCHANGED <<obs, item, cloudBlob, ret, uiVars, envVars, pipeVars, del, tpc, hist, src, dst,
              isElectron, eng, ctx, localIds, notify, localDoc, localBlob, newId, coll, todo,
              cur, newDoc, newBlob, log>>

\* servers$ emits S to the switchMap (on subscription: its current value):
\* the previous inner observable is unsubscribed, then the callback runs and
\* the new inner observable is subscribed.  eager: the pool collects as soon
\* as a count is zero, i.e. before the callback runs.
ServersEmit(S, eager) ==
  /\ pool.n < MaxEmits
  /\ LET released == ReleaseAll(pool)
         swept == IF eager THEN Gc(released) ELSE released IN
     pool' = [AcquireAll(swept, S) EXCEPT !.sub = TRUE, !.n = @ + 1]
  /\ PoolFrame

\* workspaceFlavours$ loses its last subscriber
FlavoursUnsubscribe ==
  /\ pool.sub
  /\ pool' = [ReleaseAll(pool) EXCEPT !.sub = FALSE]
  /\ PoolFrame

\* the pool's collection runs
PoolGc ==
  /\ \E s \in Servers : pool.objs[s].pid # 0 /\ pool.objs[s].rc = 0
  /\ pool' = Gc(pool)
  /\ PoolFrame

\* ----------------------------------------------------------------- addImages
\* files of one addImages call
MaxFiles == 3

\* a file: whether its type starts with 'image/' and whether its size is over
\* imageService.maxFileSize
Files == [image : BOOLEAN, big : BOOLEAN]
Batches == UNION {[1..n -> Files] : n \in 0..MaxFiles}

\* addImages(std, files, options), the uploads succeeding.  `read` is the list
\* of toasts shown, `val` the block ids returned: the block of the k-th image
\* file has id k.
AddImages(files, hasService) ==
  LET given == [files |-> files, hasService |-> hasService]
      imageFiles == SelectSeq(files, LAMBDA f : f.image) IN
  IF imageFiles = <<>> \/ ~hasService
  THEN Called("addImages", given, <<>>, FALSE, <<>>)
  ELSE IF \E i \in DOMAIN imageFiles : imageFiles[i].big
  THEN Called("addImages", given, <<"You can only upload files less than maxFileSize">>,
              FALSE, <<>>)
  ELSE Called("addImages", given, <<>>, FALSE, [i \in DOMAIN imageFiles |-> i])

AddImagesCall(files, hasService) ==
  /\ ret' = AddImages(files, hasService)
  /\ UNCHANGED <<obs, item, cloudBlob, pool, uiVars, envVars, pipeVars, del, tpc, hist, src, dst,
                 isElectron, eng, ctx, localIds, notify, localDoc, localBlob, newId, coll,
                 todo, cur, newDoc, newBlob, log>>

\* ------------------------------------------------------ observe-intersection
\* observeIntersection calls made
MaxListeners == 3

Elements == {"e1", "e2"}

\* the module's state: elementsMap (a function on the elements it has a key
\* for, each with its array of listeners), and the elements the shared
\* IntersectionObserver observes; as history, the element of every listener
\* made (a listener is the number of its observeIntersection call), the
\* listeners whose dispose has been called, and the last operation with the
\* listeners it called back
IoNew ==
  [map |-> [e \in {} |-> <<>>], observed |-> {}, owner |-> <<>>, gone |-> {},
   last |-> [op |-> "none", el |-> "none", l |-> 0, again |-> FALSE, called |-> <<>>]]

\* elementsMap.get(element) ?? []
ListenersOf(m, el) == IF el \in DOMAIN m THEN m[el] ELSE <<>>

\* elementsMap.set(element, v) / elementsMap.delete(element)
MapSet(m, el, v) == [x \in DOMAIN m \cup {el} |-> IF x = el THEN v ELSE m[x]]
MapDelete(m, el) == [x \in DOMAIN m \ {el} |-> m[x]]

\* observeIntersection(element, callback): the element is observed when the
\* map has no key for it, and the new listener is appended to its array
ObserveIntersection(o, el) ==
  LET l == Len(o.owner) + 1 IN
  [o EXCEPT !.observed = IF el \in DOMAIN o.map THEN @ ELSE @ \cup {el},
            !.map = MapSet(@, el, Append(ListenersOf(@, el), l)),
            !.owner = Append(@, el),
            !.last = [op |-> "observe", el |-> el, l |-> l, again |-> FALSE,
                      called |-> <<>>]]

\* (mutant) the element is unobserved and forgotten whenever one of its
\* listeners is removed
RemoveListenerUnobserves(o, l) ==
  LET el == o.owner[l] IN
  [o EXCEPT !.map = MapDelete(@, el), !.observed = @ \ {el},
            !.gone = @ \cup {l},
            !.last = [op |-> "dispose", el |-> el, l |-> l, again |-> l \in o.gone,
                      called |-> <<>>]]

\* listener.dispose = () => removeListener(element, listener): the listener is
\* filtered out of the element's array if it is in it; an element whose array
\* is then empty is unobserved and its key deleted
RemoveListener(o, l) ==
  LET el == o.owner[l]
      listeners == ListenersOf(o.map, el)
      filtered == IF \E i \in DOMAIN listeners : listeners[i] = l
                  THEN MapSet(o.map, el, SelectSeq(listeners, LAMBDA x : x # l))
                  ELSE o.map
      empty == el \in DOMAIN filtered /\ Len(filtered[el]) = 0
  IN [o EXCEPT !.map = IF empty THEN MapDelete(filtered, el) ELSE filtered,
               !.observed = IF empty THEN @ \ {el} ELSE @,
               !.gone = @ \cup {l},
               !.last = [op |-> "dispose", el |-> el, l |-> l, again |-> l \in o.gone,
                         called |-> <<>>]]

\* the callback of the shared IntersectionObserver for one entry: the
\* callbacks of the listeners of entry.target run in the order of the array
IntersectionCallback(o, el) ==
  [o EXCEPT !.last = [op |-> "deliver", el |-> el, l |-> 0, again |-> FALSE,
                      called |-> ListenersOf(o.map, el)]]

IoFrame ==
  UNCHANGED <<providerDisposed, pp, obs, item, cloudBlob, pool, ret, envVars, pipeVars, del,
              tpc, hist, src, dst, isElectron, eng, ctx, localIds, notify, localDoc,
              localBlob, newId, coll, todo, cur, newDoc, newBlob, log>>

IoObserve(el) ==
  /\ Len(io.owner) < MaxListeners
  /\ io' = ObserveIntersection(io, el)
  /\ IoFrame

\* a dispose function returned earlier is called, for the first time or again
IoDispose(l) ==
  /\ io' = RemoveListener(io, l)
  /\ IoFrame

\* the browser reports an entry whose target is `el`
IoDeliver(el) ==
  /\ io' = IntersectionCallback(io, el)
  /\ IoFrame

\* --------------------------------------------------------- PerplexityProvider
\* places at which the bytes of one response are cut into chunks
MaxCuts == 2

\* A string is a sequence of pieces of text: a line feed, the text `data: `
\* (what START_TOKEN_REGEX matches), the first or the second half of the JSON
\* text of event e, and a text that is neither (a comment, `[DONE]`).
Nl == [k |-> "nl", e |-> 0, h |-> 0]
DataPrefix == [k |-> "data", e |-> 0, h |-> 0]
JsonHalf(e, h) == [k |-> "json", e |-> e, h |-> h]
OtherText == [k |-> "text", e |-> 0, h |-> 0]

\* the line of event e, and the response its JSON text parses to: one choice
\* whose delta content is the one-character string <<e>>, and no citations
EventLine(e) == <<DataPrefix, JsonHalf(e, 1), JsonHalf(e, 2), Nl>>
ResponseOf(e) == [content |-> <<e>>, citations |-> <<>>]

\* in a content, the character Cite(n) stands for the text `[n]` and Link(n)
\* for the formatted citation `[[n](url)]`
Cite(n) == 10 + n
Link(n) == 20 + n

\* injectCitations(content, citations): every `[n]` whose n is the number of
\* a citation is replaced by the link, every other character is kept
InjectCitations(content, citations) ==
  [i \in DOMAIN content |->
     IF content[i] > Cite(0) /\ content[i] <= Cite(Len(citations))
     THEN Link(content[i] - Cite(0)) ELSE content[i]]

\* strictParseJSON(str): the parsed object (as <<response>>), or null (<<>>)
\* when JSON.parse throws: a JSON text parses only when it is whole
StrictParseJSON(str) ==
  IF /\ Len(str) = 2
     /\ str[1].k = "json" /\ str[2].k = "json"
     /\ str[1].e = str[2].e /\ str[1].h = 1 /\ str[2].h = 2
  THEN <<ResponseOf(str[1].e)>>
  ELSE <<>>

\* tryToParseDeltaContent(str): a leading `data: ` is sliced off once, the
\* rest is parsed; { response, content } or null
TryToParseDeltaContent(str) ==
  LET response == IF Len(str) > 0 /\ Head(str) = DataPrefix
                  THEN StrictParseJSON(Tail(str))
                  ELSE StrictParseJSON(str)
  IN IF response # <<>>
     THEN <<[response |-> response[1], content |-> response[1].content]>>
     ELSE <<>>

\* str.split('\n') (no line of the model is a lone carriage return)
RECURSIVE SplitLines(_)
SplitLines(str) ==
  IF \E i \in DOMAIN str : str[i] = Nl
  THEN LET i == CHOOSE j \in DOMAIN str :
                  str[j] = Nl /\ \A k \in 1..(j - 1) : str[k] # Nl
       IN <<SubSeq(str, 1, i - 1)>> \o SplitLines(SubSeq(str, i + 1, Len(str)))
  ELSE <<str>>

\* the for loop over the lines of one chunk: a line that parses adds its
\* content; one that does not is appended to this.buffer, and when the buffer
\* was not empty before, the buffer is parsed again and emptied on success.
\* `acc` is [buffer, deltaContent, lastResponse (<<>>: null)].
RECURSIVE ProcessLines(_, _)
ProcessLines(acc, lines) ==
  IF lines = <<>> THEN acc
  ELSE LET line == Head(lines)
           result == TryToParseDeltaContent(line)
           joined == acc.buffer \o line
           again == IF Len(acc.buffer) > 0 THEN TryToParseDeltaContent(joined) ELSE <<>>
       IN IF result # <<>>
          THEN ProcessLines([acc EXCEPT !.deltaContent = @ \o result[1].content,
                                         !.lastResponse = <<result[1].response>>],
                            Tail(lines))
          ELSE IF again # <<>>
               THEN ProcessLines([buffer |-> <<>>,
                                  deltaContent |-> acc.deltaContent \o again[1].content,
                                  lastResponse |-> <<again[1].response>>],
                                 Tail(lines))
               ELSE ProcessLines([acc EXCEPT !.buffer = joined], Tail(lines))

\* one turn of the while loop of processStreamChunks on a chunk that was
\* read: the buffer it leaves and the string it yields
ProcessChunk(buffer, chunk) ==
  LET r == ProcessLines([buffer |-> buffer, deltaContent |-> <<>>, lastResponse |-> <<>>],
                        SplitLines(chunk))
  IN [buffer |-> r.buffer,
      yield |-> IF r.lastResponse # <<>>
                THEN InjectCitations(r.deltaContent, r.lastResponse[1].citations)
                ELSE r.deltaContent]

\* ---- the responses served
\* the body of a response cut at the places `cuts`: its chunks, in order
Pieces(text, cuts) ==
  LET ends == cuts \cup {Len(text)}
      q == CHOOSE f \in [1..Cardinality(ends) -> ends] :
             \A i, j \in DOMAIN f : i < j => f[i] < f[j]
  IN [i \in DOMAIN q |-> SubSeq(text, (IF i = 1 THEN 0 ELSE q[i - 1]) + 1, q[i])]

\* the bodies: stream s carries the events 2s - 1 and 2s; the first stream
\* may have a line between them that is no event
Bodies(s) ==
  {EventLine(2 * s - 1) \o EventLine(2 * s)} \cup
  (IF s = 1 THEN {EventLine(1) \o <<OtherText, Nl>> \o EventLine(2)} ELSE {})

CutSets(text) == {c \in SUBSET (1..(Len(text) - 1)) : Cardinality(c) <= MaxCuts}

StreamIds == {1, 2}

\* a stream of the provider: the chunks its reader returns, how many have
\* been read, the concatenation of what it has yielded; as history, the
\* buffer it found when it started
StreamNew ==
  [st |-> "idle", chunks |-> <<>>, pos |-> 0, out |-> <<>>, found |-> <<>>]

\* private buffer: string = '' of the one provider instance, and its streams
PerplexityNew == [buffer |-> <<>>, s |-> [s \in StreamIds |-> StreamNew]]

\* what a stream yields in all when it is the only one of a fresh provider
RECURSIVE YieldsAlone(_, _)
YieldsAlone(buffer, chunks) ==
  IF chunks = <<>> THEN <<>>
  ELSE LET r == ProcessChunk(buffer, Head(chunks))
       IN r.yield \o YieldsAlone(r.buffer, Tail(chunks))

PerplexityFrame ==
  UNCHANGED <<providerDisposed, io, obs, item, cloudBlob, pool, ret, envVars, pipeVars, del,
              tpc, hist, src, dst, isElectron, eng, ctx, localIds, notify, localDoc,
              localBlob, newId, coll, todo, cur, newDoc, newBlob, log>>

\* generateTextStream: the response has a body, processStreamChunks starts
StreamStart(s, chunks) ==
  /\ pp.s[s].st = "idle"
  /\ pp' = [pp EXCEPT !.s[s] = [st |-> "open", chunks |-> chunks, pos |-> 0,
                                out |-> <<>>, found |-> pp.buffer]]
  /\ PerplexityFrame

\* await reader.read() of stream s resolves: with done, or with the next
\* chunk, which is processed up to the yield
StreamRead(s) ==
  /\ pp.s[s].st = "open"
  /\ IF pp.s[s].pos = Len(pp.s[s].chunks)
     THEN pp' = [pp EXCEPT !.s[s].st = "done"]
     ELSE LET r == ProcessChunk(pp.buffer, pp.s[s].chunks[pp.s[s].pos + 1])
          IN pp' = [pp EXCEPT !.buffer = r.buffer, !.s[s].pos = @ + 1,
                              !.s[s].out = @ \o r.yield]
  /\ PerplexityFrame

\* ------------------------------------------- constructing a WorkspaceEngine
\* new WorkspaceEngine(workspaceService, workerProvider): after super() the
\* field initializers run in declaration order: worker is left undefined,
\* started = false, then rootDocState$ = this.doc.docState$(workspace.id),
\* whose receiver this.doc is read through the accessor before anything is
\* called on it.  An initializer that throws makes the `new` throw.
Construct ==
  LET fields == [EngineNew EXCEPT !.worker = 0, !.started = FALSE]
      rootDoc == Read(fields, "doc")
  IN IF rootDoc.threw
     THEN Called("construct", 0, Item("missing", "none", <<>>), TRUE, rootDoc.val)
     ELSE Called("construct", 0, Item("missing", "none", <<>>), FALSE, "WorkspaceEngine")

EngineConstruct ==
  /\ ret' = Construct
  /\ UNCHANGED <<uiVars, envVars, pipeVars, del, tpc, hist, obs, item, cloudBlob, pool, src, dst,
                 isElectron, eng, ctx, localIds, notify, localDoc, localBlob, newId,
                 coll, todo, cur, newDoc, newBlob, log>>

\* ---------------------------------------------------------- specifications
InitPipe ==
  /\ lastKey = Unset
  /\ reqs = {}
  /\ workspaces = <<>>
  /\ wsOwner = NoAccount
  /\ cache = [a \in Accounts |-> [set |-> FALSE, list |-> <<>>]]
  /\ isRevalidating = FALSE
  /\ error = Null
  /\ lastEvent = "none"
  /\ aborted = {}
  /\ del = [pc |-> "idle", id |-> 0, acct |-> NoAccount, seen |-> FALSE, busy |-> FALSE, err |-> FALSE]

\* the server starts with the workspaces 1..MaxCloudId: A can list the odd
\* ones, B the even ones; the first two have been initialized
InitialRemote == [a \in Accounts |-> {i \in CloudIds : (i % 2 = 1) <=> (a = "A")}]

InitServer ==
  /\ remote = InitialRemote
  /\ remoteInit = {1, 2}

\* no transform has been called: nothing created, nothing read
InitCall ==
  /\ tpc = "idle"
  /\ eng = EngineNew
  /\ ctx = [c \in Contexts |-> CtxIdle]
  /\ localIds = InitialLocalIds
  /\ notify = <<>>
  /\ newId = 0
  /\ coll = [root |-> {}, subs |-> [g \in Guids |-> {}]]
  /\ todo = <<>>
  /\ cur = {}
  /\ newDoc = {}
  /\ newBlob = {}
  /\ log = <<>>
  /\ hist = [disposed |-> 0, constructed |-> FALSE, createReturned |-> FALSE,
             deleteInvoked |-> FALSE, failedAt |-> "none", listed |-> <<>>]

\* the other services have done nothing: nobody is subscribed, the stored
\* item is the text of the id list, no call has been made
InitUi ==
  /\ providerDisposed = FALSE
  /\ io = IoNew
  /\ pp = PerplexityNew

InitSvc ==
  /\ InitUi
  /\ obs = [c \in Contexts |-> ObsNew]
  /\ item = ItemOf(InitialLocalIds)
  /\ cloudBlob = CloudBlobNew
  /\ pool = PoolNew
  /\ ret = NoCall

\* the account, the server, the cloud provider, the transform, the engine and
\* the contexts are idle
InitQuiet ==
  /\ account = NoAccount
  /\ InitServer
  /\ InitPipe
  /\ InitCall
  /\ src = [id |-> SrcLocalId, flavour |-> LocalFlavour]
  /\ dst = LocalFlavour
  /\ isElectron = FALSE
  /\ localDoc = {}
  /\ localBlob = {}

\* the local doc storages a source workspace can have: no root document, or a
\* root that references the subdocuments 1..n; any of the subdocuments and the
\* userdata table stored or not
LocalDocChoices ==
  {root \cup subs \cup db :
     root \in {{}} \cup {{[docId |-> WsDoc(SrcLocalId),
                           bin |-> {RootTok} \cup {Ref(g) : g \in 1..n}]} : n \in 0..MaxSubdocs},
     subs \in {{[docId |-> GuidDoc(g), bin |-> {SubTok(g)}] : g \in S} : S \in SUBSET Guids},
     db \in {{}, {[docId |-> LocalDbDoc, bin |-> {DbTok}]}}}

LocalBlobChoices == {{BlobRec(k) : k \in S} : S \in SUBSET Keys}

InitReval ==
  /\ account \in Identities
  /\ InitServer
  /\ InitPipe
  /\ InitCall
  /\ InitSvc
  /\ src = [id |-> SrcLocalId, flavour |-> LocalFlavour]
  /\ dst = CloudFlavour
  /\ isElectron = FALSE
  /\ localDoc = {}
  /\ localBlob = {}

InitTransform ==
  /\ account \in {"A", NoAccount}
  /\ InitServer
  /\ InitPipe
  /\ InitCall
  /\ InitSvc
  /\ src \in {[id |-> SrcLocalId, flavour |-> LocalFlavour],
              [id |-> 1, flavour |-> CloudFlavour]}
  /\ dst \in Flavours \cup {"unknown"}
  /\ isElectron \in BOOLEAN
  /\ localDoc \in LocalDocChoices
  /\ localBlob \in LocalBlobChoices

NextReval ==
  \/ CallRevalidate
  \/ \E b \in Identities : AccountChanged(b)
  \/ \E r \in reqs : ServerHandle(r)
  \/ \E r \in reqs : FetchSuccess(r)
  \/ \E r \in reqs : FetchNull(r)
  \/ \E r \in reqs : FetchError(r)
  \/ \E i \in CloudIds : RemoteInitialized(i)
  \/ \E i \in CloudIds : DeleteWorkspace(i)
  \/ DeleteServed
  \/ DeleteFailed
  \/ DeleteRevalidate

SpecReval == InitReval /\ [][NextReval]_vars

\* the pipeline of a provider that may be disposed of
NextDispose ==
  \/ NextReval
  \/ ProviderDispose

SpecDispose == InitReval /\ [][NextDispose]_vars

NextObserve ==
  \/ \E el \in Elements : IoObserve(el)
  \/ \E l \in 1..Len(io.owner) : IoDispose(l)
  \/ \E el \in Elements : IoDeliver(el)

InitObserve ==
  /\ InitQuiet
  /\ InitSvc

SpecObserve == InitObserve /\ [][NextObserve]_vars

InitStream ==
  /\ InitQuiet
  /\ InitSvc

NextStream ==
  \/ \E s \in StreamIds : \E text \in Bodies(s) : \E cuts \in CutSets(text) :
       StreamStart(s, Pieces(text, cuts))
  \/ \E s \in StreamIds : StreamRead(s)

SpecStream == InitStream /\ [][NextStream]_vars

NextTransform ==
  \/ TransformCall
  \/ CloudCreated
  \/ CloudCreateFailed
  \/ InitRootFetched
  \/ InitSubFetched
  \/ InitDbTransformed
  \/ InitListed
  \/ InitBlobGot
  \/ InitBlobSet
  \/ PushedRoot
  \/ PushedSub
  \/ StepFail
  \/ TransformDelete
  \/ ElectronDeleted
  \/ ElectronFailed
  \/ \E k \in Keys : LocalBlobDelete(k)
  \/ \E r \in reqs : ServerHandle(r)
  \/ \E r \in reqs : FetchSuccess(r)
  \/ \E r \in reqs : FetchError(r)

SpecTransform == InitTransform /\ [][NextTransform]_vars

InitEngine ==
  /\ account = NoAccount
  /\ InitServer
  /\ InitPipe
  /\ InitCall
  /\ InitSvc
  /\ src = [id |-> SrcLocalId, flavour |-> LocalFlavour]
  /\ dst = LocalFlavour
  /\ isElectron = FALSE
  /\ localDoc = {}
  /\ localBlob = {}

NextEngine ==
  \/ \E failAt \in 0..Len(StartSteps) : EngineStart(failAt)
  \/ \E acc \in Accessors : EngineRead(acc)
  \/ EngineDispose
  \/ EngineConstruct

SpecEngine == InitEngine /\ [][NextEngine]_vars

InitIdList ==
  /\ account = NoAccount
  /\ InitServer
  /\ InitPipe
  /\ InitCall
  /\ InitSvc
  /\ src = [id |-> SrcLocalId, flavour |-> LocalFlavour]
  /\ dst = LocalFlavour
  /\ isElectron \in BOOLEAN
  /\ localDoc = {}
  /\ localBlob = {}

NextIdList ==
  \/ \E c \in Contexts : CtxCreate(c)
  \/ \E c \in Contexts, i \in Range(InitialLocalIds) : CtxDelete(c, i)
  \/ \E c \in Contexts : CtxGetIds(c)
  \/ \E c \in Contexts : CtxSetIds(c)
  \/ \E c \in Contexts : CtxElectronDeleted(c)
  \/ \E c \in Contexts : CtxElectronFailed(c)

SpecIdList == InitIdList /\ [][NextIdList]_vars

\* the id list and the contexts observing it: the calls of all contexts
\* together are bounded by MaxCtxOps
InitBroadcast == InitIdList

CallsMade == ctx[1].n + ctx[2].n

NextBroadcast ==
  \/ \E c \in Contexts : CallsMade < MaxCtxOps /\ CtxCreate(c)
  \/ \E c \in Contexts, i \in Range(InitialLocalIds) : CallsMade < MaxCtxOps /\ CtxDelete(c, i)
  \/ \E c \in Contexts : CallsMade < MaxCtxOps /\ ObsRevalidate(c)
  \/ \E c \in Contexts : CtxGetIds(c)
  \/ \E c \in Contexts : CtxSetIds(c)
  \/ \E c \in Contexts : CtxElectronDeleted(c)
  \/ \E c \in Contexts : CtxElectronFailed(c)
  \/ \E c \in Contexts : ObsSubscribe(c)
  \/ \E c \in Contexts : ObsDeliver(c)

SpecBroadcast == InitBroadcast /\ [][NextBroadcast]_vars

\* getLocalWorkspaceIds and its callers on any stored item
InitItem ==
  /\ InitQuiet
  /\ InitUi
  /\ obs = [c \in Contexts |-> ObsNew]
  /\ item \in Items
  /\ cloudBlob = CloudBlobNew
  /\ pool = PoolNew
  /\ ret = NoCall

NextItem ==
  \/ ItemEmit
  \/ \E op \in {"create", "delete"}, id \in Range(InitialLocalIds) \cup {NanoId} :
       /\ Len(item.v) <= MaxItemLen
       /\ ItemUpdate(op, id)

SpecItem == InitItem /\ [][NextItem]_vars

\* the calls on a CloudBlobStorage whose workspace holds no blob yet
InitCloudBlob ==
  /\ InitQuiet
  /\ InitSvc

NextCloudBlob ==
  \/ \E k \in Keys : CloudBlobGetCall(k)
  \/ \E k \in Keys : CloudBlobSetCall(k)
  \/ \E k \in Keys, permanently \in BOOLEAN : CloudBlobDeleteCall(k, permanently)
  \/ CloudBlobReleaseCall

SpecCloudBlob == InitCloudBlob /\ [][NextCloudBlob]_vars

\* the queries that need no engine: the init options and the profile of a
\* workspace of any provider, and the registry lookup of any name
InitQueries ==
  /\ InitQuiet
  /\ InitSvc

NextQueries ==
  \/ \E f \in ProviderFlavours, id \in WorkspaceIds : OptionsCall(f, id)
  \/ \E name \in StorageNames : ResolveCall(name)
  \/ \E identifier \in Registered, renamed \in Builds :
       ResolveBuiltCall(identifier, renamed)
  \/ \E f \in ProviderFlavours, localData \in LocalBytes, cloudData \in CloudBytes,
        info \in Infos : ProfileCall(f, localData, cloudData, info)

SpecQueries == InitQueries /\ [][NextQueries]_vars

\* the flavours provider from its construction: an empty pool
InitPool ==
  /\ InitQuiet
  /\ InitSvc

NextPool ==
  \/ \E S \in SUBSET Servers, eager \in BOOLEAN : ServersEmit(S, eager)
  \/ FlavoursUnsubscribe
  \/ PoolGc

SpecPool == InitPool /\ [][NextPool]_vars

\* addImages on any batch of files, with or without the image service
InitAddImages ==
  /\ InitQuiet
  /\ InitSvc

NextAddImages == \E files \in Batches, hasService \in BOOLEAN : AddImagesCall(files, hasService)

SpecAddImages == InitAddImages /\ [][NextAddImages]_vars

\* ------------------------------------------------------------------ claims
\* the keys of the log's events of one kind, in order
Logged(e) ==
  LET evs == SelectSeq(log, LAMBDA x : x.e = e) IN [i \in DOMAIN evs |-> evs[i].v]

Before(e1, e2) ==
  \A i \in DOMAIN log : log[i].e = e2 => \E j \in 1..(i - 1) : log[j].e = e1

\* the root document and every subdocument of the new collection are in the new
\* doc storage, each with the whole state of its document
AllPushed ==
  /\ GetDoc(newDoc, WsDoc(newId)).has
  /\ coll.root \subseteq GetDoc(newDoc, WsDoc(newId)).bin
  /\ \A g \in GetSubdocs(coll.root) :
       /\ GetDoc(newDoc, GuidDoc(g)).has
       /\ coll.subs[g] \subseteq GetDoc(newDoc, GuidDoc(g)).bin

\* C1: the local workspace is deleted only after factory.create has returned,
\* that is after the initializer has completed and the new documents have been
\* pushed; when the creation or a step of the initializer fails the deletion is
\* never invoked and the local id stays in the local id list.
C1_DeleteOnlyAfterCreate ==
  /\ hist.deleteInvoked =>
       (hist.createReturned /\ Logged("pushed") # <<>> /\ AllPushed)
  /\ (tpc = "failed" /\ hist.failedAt # "electron") =>
       (/\ ~hist.deleteInvoked
        /\ localIds = InitialLocalIds
        /\ src.flavour = LocalFlavour => src.id \in Range(localIds))

\* a migration to the cloud flavour that copied a blob and deleted the source
C1_Witness ==
  /\ tpc = "done"
  /\ dst = CloudFlavour
  /\ hist.deleteInvoked
  /\ newBlob # {}
  /\ src.id \notin Range(localIds)

\* C2: a createWorkspace whose initializer throws leaves nothing behind: the
\* local id list is unchanged, the server has no workspace of the attempted id,
\* and the doc and blob storages constructed for that id hold no record.
C2_NothingLeftBehind ==
  (tpc = "failed" /\ hist.failedAt \in InitializerPcs) =>
    (/\ localIds = InitialLocalIds
     /\ \A a \in Accounts : newId \notin remote[a]
     /\ newId \notin Ids(workspaces)
     /\ newDoc = {}
     /\ newBlob = {})

\* the keys whose get returned null in the copy loop
Skipped == Range(Logged("skip"))

\* C3 as written: after a successful transform every key of the blob list has
\* been set in the new blob storage, in list order, with the same bytes and mime.
C3_EveryListedBlobCopied ==
  tpc = "done" =>
    (/\ Logged("set") = hist.listed
     /\ \A k \in Range(hist.listed) : BlobGet(newBlob, k) = {BlobRec(k)})

\* C3 amended: after a successful transform every key of the blob list whose
\* get returned a record has been set in the new blob storage, one at a time
\* (each set directly after its get) in list order, with the same bytes and
\* mime; a listed key whose get returned null is skipped.
C3_EveryReadBlobCopied ==
  /\ \A i \in DOMAIN log :
       log[i].e = "set" => (i > 1 /\ log[i - 1] = Ev("get", log[i].v))
  /\ tpc = "done" =>
       (/\ Logged("set") = SelectSeq(hist.listed, LAMBDA k : k \notin Skipped)
        /\ \A k \in Range(Logged("set")) : BlobGet(newBlob, k) = {BlobRec(k)})

\* one listed blob was copied and another one, deleted meanwhile, skipped
C3_Witness ==
  /\ tpc = "done"
  /\ Skipped # {}
  /\ Logged("set") # <<>>

\* C4: after a successful transform the new doc storage holds, under the new
\* workspace id, a root update that includes the local root document's bytes
\* and, for every subdocument of the root, an update under its guid that
\* includes the local subdocument's bytes; the root bytes are applied before
\* any subdocument is fetched.
C4_DocumentsCopied ==
  /\ Before("applyRoot", "getSub")
  /\ tpc = "done" =>
       LET lr == GetDoc(localDoc, WsDoc(src.id)) IN
       /\ GetDoc(newDoc, WsDoc(newId)).has
       /\ lr.has => lr.bin \subseteq GetDoc(newDoc, WsDoc(newId)).bin
       /\ \A g \in GetSubdocs(lr.bin) :
            /\ GetDoc(newDoc, GuidDoc(g)).has
            /\ GetDoc(localDoc, GuidDoc(g)).bin \subseteq GetDoc(newDoc, GuidDoc(g)).bin

\* a finished transform of a root with two subdocuments that have stored bytes
C4_Witness ==
  /\ tpc = "done"
  /\ Cardinality(GetSubdocs(GetDoc(localDoc, WsDoc(src.id)).bin)) >= 2
  /\ \A g \in GetSubdocs(GetDoc(localDoc, WsDoc(src.id)).bin) :
       GetDoc(localDoc, GuidDoc(g)).has

\* C5: a transform of a workspace whose flavour is not 'local' fails on the
\* precondition before any side effect: nothing is created, read, copied or
\* deleted.
C5_PreconditionFirst ==
  (src.flavour # LocalFlavour /\ tpc # "idle") =>
    (/\ tpc = "failed"
     /\ hist.failedAt = "precondition"
     /\ newId = 0
     /\ remote = InitialRemote
     /\ log = <<>>
     /\ newDoc = {}
     /\ newBlob = {}
     /\ ~hist.constructed
     /\ ~hist.deleteInvoked
     /\ localIds = InitialLocalIds
     /\ notify = <<>>
     /\ reqs = {}
     /\ lastEvent = "none")

\* the transform of a cloud workspace was called and rejected
C5_Witness ==
  /\ src.flavour = CloudFlavour
  /\ tpc = "failed"

\* C6: createWorkspace returns only after the root document and every
\* subdocument have been pushed, and the local flavour appends the new id to the
\* id list and broadcasts it only after those pushes.
C6_PersistedBeforeVisible ==
  /\ hist.createReturned => AllPushed
  /\ (newId \in Range(localIds) \/ newId \in Range(notify)) => AllPushed

\* the local flavour listed a new workspace whose root has subdocuments
C6_Witness ==
  /\ dst = LocalFlavour
  /\ newId \in Range(localIds)
  /\ newId \in Range(notify)
  /\ GetSubdocs(coll.root) # {}

\* C7: the DocCollection made by createWorkspace is disposed exactly once on
\* every exit that follows its construction, and not before the exit.
C7_DisposedOnce ==
  /\ hist.disposed <= 1
  /\ tpc \in {"created", "d_electron", "done"} => hist.disposed = 1
  /\ tpc = "failed" => hist.disposed = IF hist.constructed THEN 1 ELSE 0
  /\ tpc \in InitializerPcs \cup PushPcs \cup {"c_wait"} =>
       (hist.constructed /\ hist.disposed = 0)

\* cloud createWorkspace left through the failure of a subdocument's push
C7_Witness ==
  /\ dst = CloudFlavour
  /\ tpc = "failed"
  /\ hist.failedAt = "p_sub"
  /\ hist.disposed = 1

NetInFlight == {r \in reqs : r.st \in {"sent", "handled"}}

C9_Coalesced ==
  /\ [](Cardinality(NetInFlight) <= 1)
  /\ [][((CallRevalidate \/ DeleteRevalidate) /\ lastKey = account /\ reqs # {})
          => (/\ lastEvent' = "dropped"
              /\ UNCHANGED <<reqs, workspaces, cache, isRevalidating, error>>)]_vars
  /\ [][(\E r \in reqs : FetchSuccess(r) \/ FetchError(r)) => reqs' = {}]_vars

\* two calls under one identity, one request, still in flight
C9_Witness ==
  /\ lastEvent = "dropped"
  /\ lastKey = account
  /\ Cardinality(NetInFlight) = 1

\* C10: when deleteWorkspace(id) returns, workspaces$ does not list id and
\* isRevalidating$ is false (stated for the returns that follow a refresh which
\* ended without an error, so that a failed refresh is not what refutes it).
C10_PostDeleteConsistent ==
  (del.pc = "returned" /\ ~del.err) => (~del.seen /\ ~del.busy)

\* C11: the change of the identity to an account b cancels the refresh in flight
\* and starts one request for b; when b's fetch succeeds (b is then still the
\* identity, by C8) workspaces$ and the cache entry of b both hold the fetched
\* list sorted ascending by id.
C11_SwitchThenCommit ==
  /\ [][\A b \in Accounts : AccountChanged(b) =>
          (/\ lastKey' = b
           /\ {r.acct : r \in reqs} \subseteq aborted'
           /\ Cardinality(reqs') = 1
           /\ \A r \in reqs' : r.acct = b /\ r.st = "sent")]_vars
  /\ [][\A r \in reqs : FetchSuccess(r) =>
          (/\ r.acct = account
           /\ IsSortedById(workspaces')
           /\ Range(workspaces') = Range(r.data)
           /\ Len(workspaces') = Len(r.data)
           /\ cache'[r.acct] = [set |-> TRUE, list |-> workspaces'])]_vars

\* B's fetch was cut off by the change to A; A's list of two was then committed
C11_Witness ==
  /\ account = "A"
  /\ "B" \in aborted
  /\ lastEvent = "committed"
  /\ reqs = {}
  /\ Len(workspaces) >= 2
  /\ Ids(workspaces) = remote["A"]
  /\ cache["A"] = [set |-> TRUE, list |-> workspaces]

\* C12: a failed fetch stores its error in error$ and changes neither
\* workspaces$ nor the cache; its completion clears isRevalidating$ unless a
\* refresh is still in flight, and a refresh in flight always has the flag set:
\* the fetch a switch unsubscribed has no completion that could clear it.
C12_ErrorCaptured ==
  /\ [](reqs # {} => isRevalidating)
  /\ [][\A r \in reqs : FetchError(r) =>
          (/\ error' # Null
           /\ reqs' = reqs \ {r}
           /\ isRevalidating' = (reqs' # {})
           /\ UNCHANGED <<workspaces, wsOwner, cache, lastKey, account>>)]_vars

\* a refresh failed after an earlier one had committed a list, which is kept
C12_Witness ==
  /\ lastEvent = "failed"
  /\ error # Null
  /\ ~isRevalidating
  /\ reqs = {}
  /\ account \in Accounts
  /\ workspaces # <<>>
  /\ cache[account] = [set |-> TRUE, list |-> workspaces]

\* C13: while there is no account identity, workspaces$ is the empty list and
\* no getWorkspaces request is in flight: the refresh of a logged-out session
\* resolves to null without a request, and a request of the previous identity
\* has been aborted.
C13_LoggedOutEmpty ==
  /\ account = NoAccount => (workspaces = <<>> /\ NetInFlight = {})
  /\ \A r \in reqs : r.acct = NoAccount <=> r.st = "pending"

\* a session that had listed workspaces logged out, and its refresh has ended
C13_Witness ==
  /\ account = NoAccount
  /\ lastEvent = "emptied"
  /\ \E a \in Accounts : cache[a].set /\ cache[a].list # <<>>
  /\ workspaces = <<>>
  /\ reqs = {}

\* C14: a successful refresh whose sorted list equals the value of workspaces$
\* emits nothing on workspaces$ and still writes the cache entry; one whose
\* sorted list differs emits it.
C14_EmitOnlyOnChange ==
  [][\A r \in reqs : FetchSuccess(r) =>
       (/\ cache'[r.acct] = [set |-> TRUE, list |-> SortById(r.data)]
        /\ IF SortById(r.data) = workspaces
           THEN lastEvent' = "unchanged" /\ workspaces' = workspaces
           ELSE lastEvent' = "committed" /\ workspaces' = SortById(r.data))]_vars

\* a refresh found the list it had shown from the cache, and emitted nothing
C14_Witness ==
  /\ lastEvent = "unchanged"
  /\ account \in Accounts
  /\ workspaces # <<>>
  /\ cache[account] = [set |-> TRUE, list |-> workspaces]
  /\ reqs = {}

\* C15: reading doc, blob or awareness on an engine without a worker throws
\* 'Engine is not initialized' at once; on an engine whose start() has opened
\* the worker each accessor returns that worker's frontend of the same name.
C15_AccessorsGuarded ==
  eng.out.op \in Accessors =>
    IF eng.worker = 0
    THEN eng.out.threw /\ eng.out.val = "Engine is not initialized"
    ELSE /\ ~eng.out.threw
         /\ eng.out.w = eng.worker
         /\ eng.out.op = "doc" => eng.out.val = "docFrontend"
         /\ eng.out.op = "blob" => eng.out.val = "blobFrontend"
         /\ eng.out.op = "awareness" => eng.out.val = "awarenessFrontend"

\* blob was read on an engine that start() had given its worker
C15_Witness ==
  /\ eng.out.op = "blob"
  /\ eng.started
  /\ eng.worker = 1
  /\ eng.out.val = "blobFrontend"

\* how often an event of one kind is in the engine's log
Count(e) == Cardinality({i \in DOMAIN eng.log : eng.log[i].e = e})

\* C16: start() on an engine whose `started` is set throws 'Engine is already
\* started' and changes nothing else; over any sequence of calls the provider
\* opens at most one worker, and the event and each of addPriority, addDoc,
\* doc.start and awareness.connect happen at most once.
C16_StartOnce ==
  /\ [](eng.opened <= 1)
  /\ [](\A s \in Range(StartSteps) : Count(s) <= 1)
  /\ [][\A f \in 0..Len(StartSteps) : (EngineStart(f) /\ eng.started) =>
          eng' = [eng EXCEPT !.starts = @ + 1,
                             !.out = [op |-> "start", threw |-> TRUE,
                                      val |-> "Engine is already started", w |-> 0]]]_vars

\* a second start() on an engine whose first start() went through
C16_Witness ==
  /\ eng.starts = 2
  /\ eng.out.op = "start"
  /\ eng.out.val = "Engine is already started"
  /\ eng.opened = 1
  /\ Len(eng.log) = Len(StartSteps)

\* the calls start() has made, without those of a later dispose
StartLog == SelectSeq(eng.log, LAMBDA x : x.e \notin {"docStop", "disposeWorker"})

\* C17: the calls of start() are, in this order, the WorkspaceEngineBeforeStart
\* event, openWorker, addPriority(root guid, 100), addDoc(root, isRoot = true),
\* doc.start, awareness.connect: a start() that fails has made a prefix of them
\* and a start() that returns has made them all.
C17_StartOrder ==
  LET expected == <<[e |-> "emitBeforeStart", v |-> 0], [e |-> "openWorker", v |-> 0],
                    [e |-> "addPriority", v |-> 100], [e |-> "addDoc", v |-> 1],
                    [e |-> "docStart", v |-> 0], [e |-> "awarenessConnect", v |-> 0]>>
  IN /\ Len(StartLog) <= Len(expected)
     /\ StartLog = SubSeq(expected, 1, Len(StartLog))
     /\ (eng.out.op = "start" /\ ~eng.out.threw) => StartLog = expected

\* start() has returned
C17_Witness ==
  /\ eng.out.op = "start"
  /\ ~eng.out.threw
  /\ eng.starts = 1
  /\ eng.worker = 1
  /\ Len(StartLog) = 6

AllWrites ==
  UNION {{[c |-> c, k |-> k, op |-> ctx[c].wrote[k].op, id |-> ctx[c].wrote[k].id] :
            k \in DOMAIN ctx[c].wrote} : c \in Contexts}

RECURSIVE ApplySerially(_, _)
ApplySerially(ops, ids) ==
  IF ops = <<>> THEN ids
  ELSE ApplySerially(Tail(ops), Updater(Head(ops).op, Head(ops).id, ids))

\* C19: when no operation is under way, the persisted id list is what the
\* operations that wrote it give when applied one after the other in some
\* order: no added id is lost and no deleted id is back.
C19_SerialIdList ==
  (\A c \in Contexts : ctx[c].pc = "idle") =>
    \E order \in Perms(AllWrites) : localIds = ApplySerially(order, InitialLocalIds)

\* C20: an operation that has written the id list has posted its id on the
\* broadcast channel by the time it ends, however it ends.
C20_BroadcastOnEveryExit ==
  \A c \in Contexts :
    ctx[c].pc = "idle" =>
      \A k \in DOMAIN ctx[c].wrote : ctx[c].wrote[k].id \in Range(notify)

\* the broadcast delivered to context c by this step
Delivered(c) == obs[c].sub /\ obs'[c].seen = obs[c].seen + 1

\* C21: when a broadcast is delivered to a subscribed context, its workspaces$
\* takes the stored list, each id with the flavour 'local': with [a, b]
\* stored and a deleted by another context, that is exactly [b] on the one
\* broadcast of the delete.  next() is called on a delivery exactly when the
\* list differs from the one emitted before.
C21_BroadcastUpdates ==
  [][\A c \in Contexts : Delivered(c) =>
       /\ obs'[c].value = LocalMetas(localIds)
       /\ (localIds = <<OtherLocalId>> => obs'[c].value = <<LocalMeta(OtherLocalId)>>)
       /\ obs'[c].nexts = obs[c].nexts + (IF obs'[c].value # obs[c].value THEN 1 ELSE 0)]_vars

\* context 1 deleted a from [a, b] and posted one message; context 2, which
\* had emitted [a, b], got that message and now has [b] after a second next()
C21_Witness ==
  /\ ctx[1].wrote = <<[op |-> "delete", id |-> SrcLocalId]>>
  /\ ctx[2].wrote = <<>>
  /\ notify = <<SrcLocalId>>
  /\ obs[2].seen = 1
  /\ obs[2].nexts = 2
  /\ obs[2].value = <<LocalMeta(OtherLocalId)>>

\* the stored item is not the text of a JSON array
Corrupt(it) == ~(it.k = "json" /\ it.t = "array")

\* C22: whatever the stored item is (missing, not JSON, or JSON that is not an
\* array: null, an object, a string), the operations that read it do not fail
\* and treat the list as empty: the emission is [], a create stores [id], a
\* delete stores [].
C22_CorruptTreatedAsEmpty ==
  (ret.op # "none" /\ Corrupt(ret.read)) =>
     /\ ~ret.threw
     /\ ret.val = (CASE ret.op = "emit" -> <<>>
                     [] ret.op = "create" -> <<ret.arg>>
                     [] ret.op = "delete" -> <<>>)

GetNow(k) == CloudBlobGet(k, [threw |-> FALSE, res |-> ServerGet(cloudBlob.st, k)], TRUE)

\* the call this step makes on the storage
CallOf(op, arg) == cloudBlob'.n = cloudBlob.n + 1 /\ ret'.op = op /\ ret'.arg = arg

\* C24: for a key that was set, get still returns the record after
\* delete(key, false), returns null after a following release(), and returns
\* null directly after delete(key, true); get of a key never set returns null
\* and does not raise.
C24_SoftDeleteThenRelease ==
  [][\A k \in Keys :
       /\ (CallOf("delete", <<k, FALSE>>) /\ GetNow(k).val # {})
            => (~GetNow(k)'.threw /\ GetNow(k)'.val = GetNow(k).val)
       /\ (CallOf("release", 0) /\ cloudBlob.st[k] = "soft")
            => (~GetNow(k)'.threw /\ GetNow(k)'.val = {})
       /\ CallOf("delete", <<k, TRUE>>)
            => (~GetNow(k)'.threw /\ GetNow(k)'.val = {})
       /\ k \notin cloudBlob'.set
            => (~GetNow(k)'.threw /\ GetNow(k)'.val = {})]_vars

\* key 1 was set and then deleted with permanently = false: the server keeps
\* it soft-deleted and get returns its record
C24_Witness ==
  /\ 1 \in cloudBlob.set
  /\ ret.op = "delete"
  /\ ret.arg = <<1, FALSE>>
  /\ cloudBlob.st[1] = "soft"
  /\ ~GetNow(1).threw
  /\ GetNow(1).val = {[key |-> 1, data |-> BlobRec(1).data, mime |-> BlobRec(1).mime]}

\* C26: create with a flavour no provider has fails with 'Unknown workspace
\* flavour' before any provider or the initializer is invoked; otherwise
\* createWorkspace is invoked once, on the provider of the requested flavour
\* (the create mutation for the cloud one, nanoid() for the local one), and
\* what create returns is that provider's workspace.
C26_FactoryDispatch ==
  /\ dst \notin Flavours =>
       /\ log = <<>> /\ newId = 0 /\ ~hist.constructed /\ ~hist.createReturned
       /\ tpc \in {"idle", "failed"}
       /\ tpc = "failed" => hist.failedAt \in {"precondition", "unknown flavour"}
  /\ dst = CloudFlavour =>
       /\ Len(Logged("createMutation")) <= 1
       /\ newId \in {0, CreatedId}
       /\ (tpc # "idle" /\ hist.failedAt # "precondition") => Len(Logged("createMutation")) = 1
  /\ dst = LocalFlavour =>
       /\ Logged("createMutation") = <<>>
       /\ newId \in {0, NanoId}
       /\ (tpc # "idle" /\ hist.failedAt # "precondition") => newId = NanoId
  /\ hist.createReturned => newId = (IF dst = CloudFlavour THEN CreatedId ELSE NanoId)

\* a local workspace is transformed to a flavour nobody provides: the call
\* has failed in the factory
C26_Witness ==
  /\ dst \notin Flavours
  /\ src.flavour = LocalFlavour
  /\ tpc = "failed"
  /\ hist.failedAt = "unknown flavour"

\* C25: resolving a name that is not registered raises: the lookup never
\* returns an absent or undefined constructor.
C25_UnknownBackendRaises ==
  (ret.op = "resolve" /\ ret.arg \notin Registered) => (ret.threw /\ ret.val # Undefined)

\* C28: getWorkspaceProfile returns a profile for each combination of local
\* and remote root-document bytes present or absent.  With no bytes the
\* renderer is not invoked and the profile has no name or avatar, only the
\* ownership / admin / team metadata (isOwner = true for the local flavour);
\* otherwise the renderer is invoked once with exactly the byte arrays
\* there are, the local one before the remote one.
C28_ProfileBestEffort ==
  ret.op = "profile" =>
    LET g == ret.arg
        bytes == g.localData \o g.cloudData IN
    /\ ~ret.threw
    /\ ret.val.isOwner = (IF g.f = LocalFlavour THEN TRUE ELSE g.info.isOwner)
    /\ g.f # LocalFlavour => (ret.val.isAdmin = g.info.isAdmin /\ ret.val.isTeam = g.info.team)
    /\ bytes = <<>> => (ret.read = <<>> /\ ~ret.val.named)
    /\ bytes # <<>> => (ret.read = <<bytes>> /\ ret.val.named)

\* a cloud workspace with both byte arrays: the renderer got local, remote
C28_Witness ==
  /\ ret.op = "profile"
  /\ ret.arg.f = CloudFlavour
  /\ ret.read = <<<<"localBin", "cloudBin">>>>

\* the storage kind a backend name stands for
KindOf(name) ==
  CASE name \in {"IndexedDBDocStorage", "CloudDocStorage"} -> "doc"
    [] name \in {"IndexedDBBlobStorage", "CloudBlobStorage"} -> "blob"
    [] name = "IndexedDBSyncStorage" -> "sync"
    [] name \in {"BroadcastChannelAwarenessStorage", "CloudAwarenessStorage"} -> "awareness"

\* C29: the bundle's local group holds exactly one doc, one blob, one sync
\* and one awareness spec, each with the workspace id and the provider's peer
\* id; remotes is empty for the local flavour and, for a cloud flavour, one
\* group whose specs all carry the workspace id and that server's base URL.
C29_InitOptionsShape ==
  ret.op = "options" =>
    LET f == ret.arg[1]
        id == ret.arg[2]
        local == ret.val.local
        remotes == ret.val.remotes IN
    /\ Len(local) = 4
    /\ \A kind \in {"doc", "blob", "sync", "awareness"} :
         Cardinality({i \in DOMAIN local : KindOf(local[i].name) = kind}) = 1
    /\ \A i \in DOMAIN local : local[i].opts.id = id /\ local[i].opts.peer = f
    /\ f = LocalFlavour => remotes = <<>>
    /\ f # LocalFlavour =>
         /\ Len(remotes) = 1
         /\ remotes[1] # <<>>
         /\ \A i \in DOMAIN remotes[1] :
              /\ remotes[1][i].opts.id = id
              /\ remotes[1][i].opts.serverBaseUrl = BaseUrl(f)
              /\ remotes[1][i].name \in Registered

\* the options of a workspace of the self-hosted server
C29_Witness ==
  /\ ret.op = "options"
  /\ ret.arg = <<"selfhosted", CreatedId>>
  /\ Len(ret.val.remotes) = 1

\* the refs of provider i that have not been released
HeldRefs(i) == {k \in DOMAIN pool.refs : pool.refs[k].pid = i /\ pool.refs[k].released = 0}

\* C27: a provider is disposed only while no ref to its entry is held, and
\* only once; a ref is released once, when the emission it was taken for is
\* replaced or unsubscribed, so the refs held are those of the current
\* emission and none without a subscription; each server id has at most one
\* provider that is not disposed.
C27_PoolRefCounted ==
  /\ \A i \in DOMAIN pool.provs :
       /\ pool.provs[i].disposed <= 1
       /\ pool.provs[i].disposed = 1 => HeldRefs(i) = {}
       /\ pool.provs[i].disposed = 0 =>
            /\ pool.objs[pool.provs[i].server].pid = i
            /\ pool.objs[pool.provs[i].server].rc = Cardinality(HeldRefs(i))
  /\ \A s \in Servers :
       Cardinality({i \in DOMAIN pool.provs :
                      pool.provs[i].server = s /\ pool.provs[i].disposed = 0}) <= 1
  /\ \A i \in DOMAIN pool.provs : Cardinality(HeldRefs(i)) <= 1
  /\ ~pool.sub => \A i \in DOMAIN pool.provs : HeldRefs(i) = {}

\* a provider was referenced by two emissions in a row, both refs are
\* released, and it has been disposed after the last release
C27_Witness ==
  /\ Len(pool.provs) = 1
  /\ pool.provs[1].disposed = 1
  /\ Len(pool.refs) = 2
  /\ \A k \in DOMAIN pool.refs : pool.refs[k].released = 1

\* C30: an image file over the size limit gives a notice and only that file
\* is left out: a block is made, and its id returned, for every other image
\* file of the batch.
C30_OversizedSkipsOnlyItself ==
  (ret.op = "addImages" /\ ret.arg.hasService) =>
    LET imageFiles == SelectSeq(ret.arg.files, LAMBDA f : f.image)
        fitting == SelectSeq(imageFiles, LAMBDA f : ~f.big) IN
    /\ Len(ret.val) = Len(fitting)
    /\ ret.read # <<>> <=> Len(fitting) < Len(imageFiles)

\* C31: for every registered backend class, the lookup of its identifier
\* returns that class, whatever the runtime constructor names of the classes
\* are.
C31_KeyedByIdentifier ==
  ret.op = "resolveBuilt" => (~ret.threw /\ ret.val = ret.arg.identifier)


\* C32: constructing a WorkspaceEngine succeeds: the constructor never raises
\* 'Engine is not initialized'.
C32_ConstructionSucceeds ==
  ret.op = "construct" => ~ret.threw

\* C33: once a start() call has returned or thrown, an engine that is started
\* has its worker handle set.
C33_StartedImpliesWorker ==
  (eng.out.op = "start" /\ eng.started) => eng.worker # 0


\* C34: isRevalidating$ is false whenever no workspace-list fetch is in
\* flight, in particular after the provider has been disposed of, so that a
\* caller of waitForLoaded() is not left waiting.
C34_IdleMeansLoaded ==
  reqs = {} => ~isRevalidating


\* the listeners registered on an element: made for it and not disposed of, in
\* registration order
Registrations(el) ==
  SelectSeq([l \in 1..Len(io.owner) |-> l],
            LAMBDA l : io.owner[l] = el /\ l \notin io.gone)

\* C35: an element is observed by the shared IntersectionObserver iff it has
\* a registered listener; its array holds exactly its registered listeners in
\* registration order, so that a dispose removes only its own listener and a
\* repeated dispose changes nothing; an entry is delivered to exactly the
\* registered listeners of its target, in registration order.
C35_ObservedIffListened ==
  /\ \A el \in Elements :
       /\ ListenersOf(io.map, el) = Registrations(el)
       /\ el \in io.observed <=> Registrations(el) # <<>>
       /\ el \in DOMAIN io.map <=> Registrations(el) # <<>>
  /\ io.last.op = "deliver" => io.last.called = Registrations(io.last.el)

\* a dispose function has just been called a second time on an element that
\* keeps a listener registered after it, while the other element, whose only
\* listener was disposed of, is no longer observed
C35_Witness ==
  /\ io.last.op = "dispose" /\ io.last.again
  /\ Registrations(io.last.el) # <<>>
  /\ io.last.el \in io.observed
  /\ \E l \in io.gone : io.owner[l] # io.last.el /\ io.owner[l] \notin io.observed


\* the delta contents of all the events of a stream, concatenated
RECURSIVE Flatten(_)
Flatten(chunks) == IF chunks = <<>> THEN <<>> ELSE Head(chunks) \o Flatten(Tail(chunks))

Contents(chunks) ==
  LET body == Flatten(chunks)
      firsts == SelectSeq(body, LAMBDA t : t.k = "json" /\ t.h = 1)
  IN [i \in DOMAIN firsts |-> firsts[i].e]

\* C36: a stream that is the only one its provider has served yields, in
\* all, the delta contents of all its events, however its lines are cut into
\* chunks and whatever lines that are no events lie between them.
C36_YieldsAllContents ==
  \A s \in StreamIds :
    (pp.s[s].st = "done" /\ \A t \in StreamIds \ {s} : pp.s[t].st = "idle")
      => pp.s[s].out = Contents(pp.s[s].chunks)

\* C37: a stream finds the buffer empty when it starts, and yields what it
\* would yield were it the only stream of the provider.
C37_StreamsIndependent ==
  \A s \in StreamIds :
    /\ pp.s[s].st # "idle" => pp.s[s].found = <<>>
    /\ pp.s[s].st = "done" => pp.s[s].out = YieldsAlone(<<>>, pp.s[s].chunks)

====
